---- MODULE Spec2Model ----
(***************************************************************************)
(* PrivateAI Gateway (raorla/POC-SecretiApp): the Coordinator's session    *)
(* and prompt state machine (backend routes and services), the two TEE     *)
(* applications (KeyManager, PrivateAI Oracle) and the task platform they  *)
(* run on.                                                                 *)
(*                                                                         *)
(* One clock tick stands for 300 s: the shortest session duration the      *)
(* create-session schema accepts and the time the Coordinator waits for a  *)
(* TEE task.  Identifiers (uuid v4 session and prompt ids, task ids) are   *)
(* the position of the record in its collection.  Node runs one handler    *)
(* until it awaits I/O, so a handler is cut into actions at the awaits     *)
(* that reach the network; awaits on the in-memory services resolve in the *)
(* same turn.                                                              *)
(***************************************************************************)
EXTENDS Integers, Sequences, FiniteSets, TLC

\* ---------------------------------------------------------------- bounds
MaxSessions == 1
MaxPrompts == 1
MaxTime == 2
MaxDuration == 1
\* Prompts in flight against one session, in PromptSpec.
MaxConcurrentPrompts == 2

\* ------------------------------------------------------------- constants
\* waitForTaskResult(taskId, 300000): 300000 ms is one clock tick.
TaskWaitTicks == 1

\* A demo credential and one the simulation path takes for a real key
\* (not starting with demo or test, longer than 20 characters).
Credentials == {"sk-test-ABC", "sk-live-0123456789abcdefghij"}
Durations == 1..MaxDuration
PromptText == "ping"

NoTask == 0
UnknownTask == -1
NoTime == -1

\* ------------------------------------------------- strings and crypto
\* Every string-valued datum is a record with a kind, so that plaintext,
\* JSON text and ciphertext are distinguishable values.
NoStr == [kind |-> "none"]
Plain(v) == [kind |-> "plain", v |-> v]
Garbage == [kind |-> "garbage"]
DecryptError == [kind |-> "error"]
\* prompts.ts line 137: the string sniffing that selects the real provider.
isRealApiKey(apiKey) == apiKey = Plain("sk-live-0123456789abcdefghij")

JSONStringify(obj) == [kind |-> "json", obj |-> obj]
IsJSON(s) == s.kind = "json"
JSONParse(s) == s.obj

NoKey == [key |-> 0, iv |-> 0]
\* randomBytes(32) / randomBytes(16): the n-th draw differs from every other
\* draw, and a key never equals an iv.
generateSessionKey(n) == [key |-> 2 * n - 1, iv |-> 2 * n]

\* aes-256-cbc: the ciphertext is determined by plaintext, key and iv.
Encrypt(data, key, iv) == [kind |-> "cipher", key |-> key, iv |-> iv, data |-> data]
\* The results createDecipheriv/update/final can give: the plaintext under
\* the right key and iv; under the right key and another iv a garbled first
\* block; under another key a padding error or, when the last byte happens
\* to be valid padding, garbage.
DecryptOutcomes(ct, key, iv) ==
  IF ct.kind # "cipher" THEN {DecryptError}
  ELSE IF ct.key = key /\ ct.iv = iv THEN {ct.data}
  ELSE IF ct.key = key THEN {Garbage}
  ELSE {DecryptError, Garbage}

\* KeyManager encrypt(data, key, iv): JSON.stringify, then aes-256-cbc.
KMEncrypt(data, key, iv) == Encrypt(JSONStringify(data), key, iv)

\* ------------------------------------------------------------- state
VARIABLES
  env,          \* process.env: SIMULATION_MODE, NODE_ENV
  now,          \* Date.now(), in ticks
  sessions,     \* session.ts: Map sessions (id -> Session)
  sessionKeys,  \* sessions.ts: Map sessionKeys (id -> {key, iv, apiKey})
  prompts,      \* prompt.ts: Map prompts (id -> Prompt)
  tasks,        \* the task platform: deals matched, their status and output
  creation,     \* per session: the create handler and its background waiter
  getReq,       \* per session: a GET /sessions/:id handler in flight
  submit,       \* per prompt: the POST /prompts handler
  resp,         \* the last response that carried a session record or
                \* refused a prompt
  relay,        \* the SMS: the requester secrets of the dedicated address
  pushes,       \* per call of pushToSMS: its position, name and value
  crypto,       \* one use of an encrypt/decrypt pair: arguments and results
  wait,         \* one call of waitForTaskResult: its position and outcome
  gateway,      \* PrivateAIGateway.sol: the contract's storage and balance
  limiter       \* rateLimiter.ts: the store, and what was passed on

vars == <<env, now, sessions, sessionKeys, prompts, tasks, creation, getReq, submit, resp,
          relay, pushes, crypto, wait, gateway, limiter>>

\* Secret names: the name asked for, or that name with '-' + Date.now().
SecretBases == {"session-req-1"}
SecretNames == [base : SecretBases, ts : {NoTime} \cup (0..MaxTime)]
NoSecrets == [n \in SecretNames |-> NoStr]

NoCrypto == [pc |-> "none"]

SessionIds == DOMAIN sessions
PromptIds == DOMAIN prompts
TaskIds == DOMAIN tasks

isSimulationMode == env.simulation
isProduction == env.nodeEnv = "production"

NoEntry == [present |-> FALSE, key |-> 0, iv |-> 0, apiKey |-> NoStr]
NoOutput == [present |-> FALSE, success |-> FALSE, error |-> "",
             sessionKey |-> NoKey, encryptedApiKey |-> NoStr, response |-> NoStr]
NoWait == [pc |-> "none", start |-> NoTime, seen |-> "none", error |-> "",
           result |-> NoOutput]
NoResp == [op |-> "none", code |-> 0, sid |-> 0, status |-> "none", key |-> NoKey]
IdleCreation == [pc |-> "none", start |-> NoTime, cred |-> NoStr]
IdleSubmit == [pc |-> "done", start |-> NoTime, data |-> NoEntry]

\* PrivateAIGateway: addresses, request ids and the storage after the
\* constructor. Amounts are in units of MIN_FEE.
MaxGatewayRequests == 2
GatewayCallers == {"owner", "operator", "user"}
PromptHash == 1
BaseFee == 10
InitialFeePercent == 10
MaxFeePercent == 50
\* keccak256(abi.encodePacked(msg.sender, promptHash, block.timestamp,
\* totalRequests)): one id per tuple.
requestId(sender, promptHash, timestamp, n) == <<sender, promptHash, timestamp, n>>
\* The ids createRequest can produce for the requester, which the operator
\* can compute beforehand.
GatewayIds == {requestId("user", PromptHash, 0, n) : n \in 0..(MaxGatewayRequests - 1)}
\* An unwritten slot of the requests mapping: every field zero, and the
\* zero of RequestStatus is Pending.
NoRequest == [requester |-> "zero", fee |-> 0, timestamp |-> NoTime, status |-> "Pending"]
NoCall == [fn |-> "constructor", sender |-> "owner", ok |-> TRUE]
GatewayDeployed ==
  [requests |-> [id \in GatewayIds |-> NoRequest],
   totalRequests |-> 0,
   operator |-> "operator",
   platformFeePercent |-> InitialFeePercent,
   balance |-> 0,
   paid |-> [id \in GatewayIds |-> [treasury |-> 0, operator |-> 0, requester |-> 0]],
   last |-> NoCall]

\* rateLimiter.ts: the configuration (scaled: one window is one tick), an
\* empty store and an empty record of what went through. MAX_REQUESTS is
\* the default of line 14; RATE_LIMIT_MAX_REQUESTS may set another number.
MAX_REQUESTS == 2
MaxRequestsValues == {0, MAX_REQUESTS}
WINDOW_MS == 1
Clients == {"10.0.0.1", "10.0.0.2"}
MaxOverLimit == 2
NoClient == [present |-> FALSE, count |-> 0, resetTime |-> 0]
NoLimiter ==
  [max |-> MAX_REQUESTS,
   store |-> [c \in Clients |-> NoClient],
   passed |-> [c \in Clients |-> [r \in 0..(MaxTime + WINDOW_MS) |-> 0]],
   last |-> [client |-> "none", code |-> 0]]

Terminal == {"expired", "revoked", "failed"}

\* A response about session s of the collection ss, as the handler leaves it.
Respond(op, code, ss, s, key) ==
  [op |-> op, code |-> code, sid |-> s, status |-> ss[s].status, key |-> key]

\* ---------------------------------------------------- SessionService
NewSession(d) ==
  [taskId |-> NoTask, status |-> "pending", sessionKey |-> NoKey,
   createdAt |-> now, expiresAt |-> now + d, error |-> ""]

\* activate(sessionId, result): status and sessionKey are overwritten
\* whatever the status was.
activate(ss, s, key) ==
  IF s \in DOMAIN ss
  THEN [ss EXCEPT ![s].status = "active", ![s].sessionKey = key]
  ELSE ss

fail(ss, s, error) ==
  IF s \in DOMAIN ss
  THEN [ss EXCEPT ![s].status = "failed", ![s].error = error]
  ELSE ss

revoke(ss, s) ==
  IF s \in DOMAIN ss THEN [ss EXCEPT ![s].status = "revoked"] ELSE ss

updateTaskId(ss, s, t) ==
  IF s \in DOMAIN ss THEN [ss EXCEPT ![s].taskId = t] ELSE ss

\* getByTaskId returning the first session of the table, whatever its task.
getByTaskId_First(t) == IF SessionIds = {} THEN 0 ELSE 1

\* getByTaskId: the first session, in insertion order, with that task id.
getByTaskId(t) ==
  LET hits == {s \in SessionIds : sessions[s].taskId = t}
  IN IF hits = {} THEN 0 ELSE CHOOSE s \in hits : \A o \in hits : s <= o

\* cleanupExpired with the comparison of line 144 turned round.
cleanupExpired_Reversed(ss) ==
  [s \in DOMAIN ss |->
     IF ss[s].expiresAt > now /\ ss[s].status = "active"
     THEN [ss[s] EXCEPT !.status = "expired"]
     ELSE ss[s]]

\* cleanupExpired: every active session past its expiresAt becomes expired.
\* cleanupExpired without the test of the status.
cleanupExpired_AnyStatus(ss) ==
  [s \in DOMAIN ss |->
     IF ss[s].expiresAt < now THEN [ss[s] EXCEPT !.status = "expired"] ELSE ss[s]]

cleanupExpired(ss) ==
  [s \in DOMAIN ss |->
     IF ss[s].expiresAt < now /\ ss[s].status = "active"
     THEN [ss[s] EXCEPT !.status = "expired"]
     ELSE ss[s]]

\* ----------------------------------------------------- PromptService
NewPrompt(s) ==
  [sessionId |-> s, taskId |-> NoTask, encryptedPrompt |-> Plain(PromptText),
   status |-> "pending", encryptedResult |-> NoStr, error |-> "",
   completedAt |-> NoTime]

promptUpdateTaskId(ps, p, t) ==
  IF p \in DOMAIN ps THEN [ps EXCEPT ![p].taskId = t, ![p].status = "processing"] ELSE ps

\* complete finding its records by session instead of by prompt id.
complete_BySession(ps, p, result) ==
  IF p \in DOMAIN ps
  THEN [q \in DOMAIN ps |->
          IF ps[q].sessionId = ps[p].sessionId
          THEN [ps[q] EXCEPT !.status = "completed", !.encryptedResult = result,
                             !.completedAt = now]
          ELSE ps[q]]
  ELSE ps

\* complete(promptId, encryptedResult, usage)
complete(ps, p, result) ==
  IF p \in DOMAIN ps
  THEN [ps EXCEPT ![p].status = "completed", ![p].encryptedResult = result,
                  ![p].completedAt = now]
  ELSE ps

promptFail(ps, p, error) ==
  IF p \in DOMAIN ps
  THEN [ps EXCEPT ![p].status = "failed", ![p].error = error, ![p].completedAt = now]
  ELSE ps

promptByTaskId(t) ==
  LET hits == {p \in PromptIds : prompts[p].taskId = t}
  IN IF hits = {} THEN 0 ELSE CHOOSE p \in hits : \A o \in hits : p <= o

\* ------------------------------------------------ the TEE applications
NoKMError == "No API key provided (IEXEC_REQUESTER_SECRET_1 is required)"
NoPromptError == "No prompt provided (IEXEC_REQUESTER_SECRET_1 is required)"
DecryptFailedError == "Failed to decrypt API key"
NoApiKeyError == "No API key found for provider"
ProviderError == "OpenAI API error: upstream"
TaskFailedError == "Task failed"
UnknownTEEError == "Unknown TEE error"
AIContent == "pong"

\* The catch block rethrowing instead of writing result.json.
Failure_Unwritten(error) == NoOutput

\* catch (e): errorOutput = {success: false, error: e.message}, written to
\* result.json.
Failure(error) == [NoOutput EXCEPT !.present = TRUE, !.error = error]

\* !apiKey: undefined or the empty string.
Falsy(s) == s.kind = "none" \/ s = Plain("")

\* KeyManager main, action generate-session: the result.json it writes for
\* task t, given IEXEC_REQUESTER_SECRET_1 as the enclave sees it.
\* KeyManager main without the check of line 349.
KeyManagerMain_Unvalidated(t, apiKey, sessionId, expiresAt) ==
  [NoOutput EXCEPT !.present = TRUE, !.success = TRUE,
                   !.sessionKey = generateSessionKey(t),
                   !.encryptedApiKey =
                     KMEncrypt([apiKey |-> apiKey, sessionId |-> sessionId,
                                expiresAt |-> expiresAt],
                               generateSessionKey(t).key, generateSessionKey(t).iv)]

KeyManagerMain(t, apiKey, sessionId, expiresAt) ==
  IF Falsy(apiKey)
  THEN Failure(NoKMError)
  ELSE LET sessionKey == generateSessionKey(t)
           encryptedApiKey ==
             KMEncrypt([apiKey |-> apiKey, sessionId |-> sessionId, expiresAt |-> expiresAt],
                       sessionKey.key, sessionKey.iv)
       IN [NoOutput EXCEPT !.present = TRUE, !.success = TRUE,
                           !.sessionKey = sessionKey,
                           !.encryptedApiKey = encryptedApiKey]

\* PrivateAI Oracle main, lines 145-195: where the API key comes from (none
\* is read when the prompt is missing: line 148 throws first).
\* decrypted is the outcome of decryptApiKey the run meets.
\* The result is [source, apiKey]; source "error" is the throw of line 172.
\* The oracle taking the decrypted text itself for the API key, without
\* JSON.parse(...).apiKey.
ExtractApiKey_Unparsed(decrypted) == [source |-> "session", apiKey |-> decrypted]

ExtractApiKey(decrypted) ==
  IF IsJSON(decrypted) /\ JSONParse(decrypted).apiKey.kind = "plain"
  THEN [source |-> "session", apiKey |-> JSONParse(decrypted).apiKey]
  ELSE [source |-> "error", apiKey |-> NoStr]

\* API key selection in which a failed decryption goes on to the app
\* developer secret instead of throwing.
OracleApiKeys_FallsBack(secret1, secret2, secret3, appSecret) ==
  IF Falsy(secret1)
  THEN {[source |-> "none", apiKey |-> NoStr]}
  ELSE IF ~Falsy(appSecret)
  THEN {[source |-> "app", apiKey |-> appSecret]}
  ELSE {[source |-> "none", apiKey |-> NoStr]}

OracleApiKeys(secret1, secret2, secret3, appSecret) ==
  IF Falsy(secret1)
  THEN {[source |-> "none", apiKey |-> NoStr]}
  ELSE IF ~Falsy(secret2) /\ ~Falsy(secret3)
  THEN IF IsJSON(secret2)
       THEN {ExtractApiKey(d) :
               d \in DecryptOutcomes(secret3, JSONParse(secret2).key, JSONParse(secret2).iv)}
       ELSE {[source |-> "error", apiKey |-> NoStr]}
  ELSE IF ~Falsy(secret2)
  THEN {[source |-> "direct", apiKey |-> secret2]}
  ELSE IF ~Falsy(appSecret)
  THEN {[source |-> "app", apiKey |-> appSecret]}
  ELSE {[source |-> "none", apiKey |-> NoStr]}

\* PrivateAI Oracle main: the result.json for one run; got is the element of
\* OracleApiKeys the run meets, providerOk whether the provider answers 2xx.
OracleMain(secret1, got, providerOk) ==
  IF Falsy(secret1) THEN Failure(NoPromptError)
  ELSE IF got.source = "error" THEN Failure(DecryptFailedError)
  ELSE IF Falsy(got.apiKey) THEN Failure(NoApiKeyError)
  ELSE IF ~providerOk THEN Failure(ProviderError)
  ELSE [NoOutput EXCEPT !.present = TRUE, !.success = TRUE, !.response = Plain(AIContent)]

\* Whether the run reaches the provider call of lines 201-213.
OracleCallsProvider(secret1, got) ==
  ~Falsy(secret1) /\ got.source # "error" /\ ~Falsy(got.apiKey)

\* ------------------------------------------------------ the platform
NewTask(kind, s, p, expiresAt, s1, s2, s3) ==
  [kind |-> kind, sid |-> s, pid |-> p, status |-> "ACTIVE", expiresAt |-> expiresAt,
   secret1 |-> s1, secret2 |-> s2, secret3 |-> s3,
   output |-> NoOutput, source |-> "none", apiKey |-> NoStr, called |-> FALSE]

\* The enclave's view of a requester secret: the bound value, or nothing.
Seen(delivered, secret) == IF delivered THEN secret ELSE NoStr

TaskRunKM(t, d1) ==
  /\ t \in TaskIds
  /\ tasks[t].kind = "km"
  /\ tasks[t].status = "ACTIVE"
  /\ tasks' = [tasks EXCEPT
       ![t].status = "COMPLETED",
       ![t].output = KeyManagerMain(t, Seen(d1, tasks[t].secret1), tasks[t].sid,
                                    tasks[t].expiresAt),
       ![t].apiKey = Seen(d1, tasks[t].secret1)]
  /\ UNCHANGED <<gateway, limiter, wait, relay, pushes, crypto, env, now, sessions, sessionKeys, prompts, creation, getReq, submit, resp>>

\* One run of the PrivateAI Oracle for task t, with the requester secrets
\* and the app developer secret its enclave sees.
OracleRun(t, secret1, secret2, secret3, appSecret, providerOk) ==
  /\ t \in TaskIds
  /\ tasks[t].kind = "oracle"
  /\ tasks[t].status = "ACTIVE"
  /\ \E got \in OracleApiKeys(secret1, secret2, secret3, appSecret) :
       tasks' = [tasks EXCEPT
         ![t].status = "COMPLETED",
         ![t].output = OracleMain(secret1, got, providerOk),
         ![t].source = got.source,
         ![t].apiKey = got.apiKey,
         ![t].called = OracleCallsProvider(secret1, got)]
  /\ UNCHANGED <<gateway, limiter, wait, relay, pushes, crypto, env, now, sessions, sessionKeys, prompts, creation, getReq, submit, resp>>

\* The enclave sees the three requester secrets the deal binds, or none of
\* them; no app developer secret is configured.
TaskRunOracle(t, delivered, providerOk) ==
  OracleRun(t, Seen(delivered, tasks[t].secret1), Seen(delivered, tasks[t].secret2),
            Seen(delivered, tasks[t].secret3), NoStr, providerOk)

\* The platform gives the task up (no worker, worker timeout, failed consensus).
TaskFail(t) ==
  /\ t \in TaskIds
  /\ tasks[t].status = "ACTIVE"
  /\ tasks' = [tasks EXCEPT ![t].status = "FAILED"]
  /\ UNCHANGED <<gateway, limiter, wait, relay, pushes, crypto, env, now, sessions, sessionKeys, prompts, creation, getReq, submit, resp>>

\* ------------------------------------------------------------- Init
Init ==
  /\ env \in [simulation : BOOLEAN, nodeEnv : {"development", "production"}]
  /\ now = 0
  /\ sessions = <<>>
  /\ sessionKeys = <<>>
  /\ prompts = <<>>
  /\ tasks = <<>>
  /\ creation = <<>>
  /\ getReq = <<>>
  /\ submit = <<>>
  /\ resp = NoResp
  /\ relay = NoSecrets
  /\ pushes = <<>>
  /\ crypto = NoCrypto
  /\ wait = NoWait
  /\ gateway = GatewayDeployed
  /\ limiter = NoLimiter

\* --------------------------------------------------------- the clock
Tick ==
  /\ now < MaxTime
  /\ now' = now + 1
  /\ UNCHANGED <<gateway, limiter, wait, relay, pushes, crypto, env, sessions, sessionKeys, prompts, tasks, creation, getReq, submit, resp>>

\* setInterval(cleanupExpired, 60000)
\* The number cleanupExpired returns: cleaned++ in the loop over the first n
\* entries.
RECURSIVE cleaned(_, _)
cleaned(ss, n) ==
  IF n = 0 THEN 0
  ELSE cleaned(ss, n - 1)
         + (IF ss[n].expiresAt < now /\ ss[n].status = "active" THEN 1 ELSE 0)

Sweep ==
  /\ sessions' = cleanupExpired(sessions)
  /\ UNCHANGED <<gateway, limiter, wait, relay, pushes, crypto, env, now, sessionKeys, prompts, tasks, creation, getReq, submit, resp>>

\* ------------------------------------------- POST /sessions (create)
\* Simulation mode: the whole handler runs in one turn.
CreateSessionSim(cred, d) ==
  /\ isSimulationMode
  /\ Len(sessions) < MaxSessions
  /\ LET s == Len(sessions) + 1
         sessionKey == generateSessionKey(s)
     IN /\ sessions' = activate(Append(sessions, NewSession(d)), s,
                                [key |-> sessionKey.key, iv |-> 0])
        /\ sessionKeys' = Append(sessionKeys,
                                 [present |-> TRUE, key |-> sessionKey.key,
                                  iv |-> sessionKey.iv, apiKey |-> Plain(cred)])
        /\ creation' = Append(creation, IdleCreation)
        /\ getReq' = Append(getReq, "idle")
        /\ resp' = Respond("create", 201, sessions', s, sessionKey)
  /\ UNCHANGED <<gateway, limiter, wait, relay, pushes, crypto, env, now, prompts, tasks, submit>>

\* Production mode, up to the call of runKeyManager: the record is pending.
CreateSessionProd(cred, d) ==
  /\ ~isSimulationMode
  /\ Len(sessions) < MaxSessions
  /\ sessions' = Append(sessions, NewSession(d))
  /\ sessionKeys' = Append(sessionKeys, NoEntry)
  /\ creation' = Append(creation, [pc |-> "dispatch", start |-> NoTime, cred |-> Plain(cred)])
  /\ getReq' = Append(getReq, "idle")
  /\ UNCHANGED <<gateway, limiter, wait, relay, pushes, crypto, env, now, prompts, tasks, submit, resp>>

\* DELETE /sessions/:sessionId
RevokeSession(s) ==
  /\ s \in SessionIds
  /\ sessionKeys' = [sessionKeys EXCEPT ![s] = NoEntry]
  /\ sessions' = revoke(sessions, s)
  /\ UNCHANGED <<gateway, limiter, wait, relay, pushes, crypto, env, now, prompts, tasks, creation, getReq, submit, resp>>

\* runKeyManager returns: the deal is matched, the task id recorded, the
\* background waiter started and the pending response sent.
KMDispatch(s) ==
  /\ s \in SessionIds
  /\ creation[s].pc = "dispatch"
  /\ LET t == Len(tasks) + 1
     IN /\ tasks' = Append(tasks, NewTask("km", s, 0, sessions[s].createdAt +
                              (sessions[s].expiresAt - sessions[s].createdAt),
                              creation[s].cred, NoStr, NoStr))
        /\ sessions' = updateTaskId(sessions, s, t)
  /\ creation' = [creation EXCEPT ![s] = [pc |-> "wait", start |-> now, cred |-> NoStr]]
  /\ resp' = Respond("create", 201, sessions', s, NoKey)
  /\ UNCHANGED <<gateway, limiter, wait, relay, pushes, crypto, env, now, sessionKeys, prompts, getReq, submit>>

\* runKeyManager throws (no order available, a push or a match fails).
KMDispatchThrow(s) ==
  /\ s \in SessionIds
  /\ creation[s].pc = "dispatch"
  /\ creation' = [creation EXCEPT ![s] = IdleCreation]
  /\ resp' = Respond("create", 500, sessions, s, NoKey)
  /\ UNCHANGED <<gateway, limiter, wait, relay, pushes, crypto, env, now, sessions, sessionKeys, prompts, tasks, getReq, submit>>

\* What the Coordinator stores from a TEE #1 result (sessions.ts 106-112,
\* 179-186): the entry of sessionKeys and the activation.
StoredEntry(result) ==
  [present |-> TRUE, key |-> result.sessionKey.key, iv |-> result.sessionKey.iv,
   apiKey |-> result.encryptedApiKey]

ResultSuccess(result) == result.success

\* One poll of waitForTaskResult by the background waiter that meets a
\* finished task; fetched is whether the result download succeeds.
WaiterPoll(s, fetched) ==
  /\ s \in SessionIds
  /\ creation[s].pc = "wait"
  /\ now - creation[s].start < TaskWaitTicks
  /\ LET task == tasks[sessions[s].taskId]
         result == task.output
     IN /\ task.status \in {"COMPLETED", "FAILED"}
        /\ IF task.status = "COMPLETED" /\ fetched /\ ResultSuccess(result)
           THEN /\ sessionKeys' = [sessionKeys EXCEPT ![s] = StoredEntry(result)]
                /\ sessions' = activate(sessions, s, [key |-> result.sessionKey.key, iv |-> 0])
           ELSE UNCHANGED <<sessions, sessionKeys>>
  /\ creation' = [creation EXCEPT ![s] = [pc |-> "done", start |-> NoTime, cred |-> NoStr]]
  /\ UNCHANGED <<gateway, limiter, wait, relay, pushes, crypto, env, now, prompts, tasks, getReq, submit, resp>>

\* 'Task timed out': the waiter stops.
WaiterTimeout(s) ==
  /\ s \in SessionIds
  /\ creation[s].pc = "wait"
  /\ now - creation[s].start >= TaskWaitTicks
  /\ creation' = [creation EXCEPT ![s] = [pc |-> "done", start |-> NoTime, cred |-> NoStr]]
  /\ UNCHANGED <<gateway, limiter, wait, relay, pushes, crypto, env, now, sessions, sessionKeys, prompts, tasks, getReq, submit, resp>>

\* ------------------------------------------- GET /sessions/:sessionId
\* Up to the check of line 168, made on the status getTaskStatus returns.
GetSession(s) ==
  /\ s \in SessionIds
  /\ getReq[s] = "idle"
  /\ IF isSimulationMode /\ sessionKeys[s].present
     THEN /\ resp' = Respond("get", 200, sessions, s,
                             [key |-> sessionKeys[s].key, iv |-> sessionKeys[s].iv])
          /\ UNCHANGED getReq
     ELSE IF sessions[s].taskId # NoTask
               /\ tasks[sessions[s].taskId].status = "COMPLETED"
               /\ sessions[s].status # "active"
     THEN /\ getReq' = [getReq EXCEPT ![s] = "fetch"]
          /\ UNCHANGED resp
     ELSE /\ resp' = Respond("get", 200, sessions, s, sessions[s].sessionKey)
          /\ UNCHANGED getReq
  /\ UNCHANGED <<gateway, limiter, wait, relay, pushes, crypto, env, now, sessions, sessionKeys, prompts, tasks, creation, submit>>

\* waitForTaskResult(session.taskId, 5000) returns or throws.
GetSessionResult(s, fetched) ==
  /\ s \in SessionIds
  /\ getReq[s] = "fetch"
  /\ LET result == tasks[sessions[s].taskId].output
     IN IF fetched /\ ResultSuccess(result)
        THEN /\ sessionKeys' = [sessionKeys EXCEPT ![s] = StoredEntry(result)]
             /\ sessions' = activate(sessions, s, [key |-> result.sessionKey.key, iv |-> 0])
             /\ resp' = Respond("get", 200, sessions', s, result.sessionKey)
        ELSE /\ resp' = Respond("get", 200, sessions, s, sessions[s].sessionKey)
             /\ UNCHANGED <<sessions, sessionKeys>>
  /\ getReq' = [getReq EXCEPT ![s] = "idle"]
  /\ UNCHANGED <<gateway, limiter, wait, relay, pushes, crypto, env, now, prompts, tasks, creation, submit>>

\* --------------------------------------- POST /webhooks/task-complete
\* The body {taskId, status, result} reports a finished task of the platform
\* (or a task the Coordinator does not know); signed is whether
\* verifyWebhookSignature accepts the x-iexec-signature header.
Webhook(t, status, signed) ==
  /\ t \in TaskIds \cup {UnknownTask}
  /\ t \in TaskIds => status = tasks[t].status
  /\ IF isProduction /\ ~signed
     THEN UNCHANGED <<sessions, prompts>>
     ELSE LET result == IF t \in TaskIds THEN tasks[t].output ELSE NoOutput
              s == getByTaskId(t)
              p == promptByTaskId(t)
          IN IF s # 0
             THEN /\ sessions' =
                       IF status = "COMPLETED" THEN activate(sessions, s, result.sessionKey)
                       ELSE fail(sessions, s,
                                 IF result.error # "" THEN result.error ELSE TaskFailedError)
                  /\ UNCHANGED prompts
             ELSE IF p # 0
             THEN /\ prompts' =
                       IF status = "COMPLETED"
                       THEN complete(prompts, p, [kind |-> "object", obj |-> result])
                       ELSE promptFail(prompts, p,
                                 IF result.error # "" THEN result.error ELSE TaskFailedError)
                  /\ UNCHANGED sessions
             ELSE UNCHANGED <<sessions, prompts>>
  /\ UNCHANGED <<gateway, limiter, wait, relay, pushes, crypto, env, now, sessionKeys, tasks, creation, getReq, submit, resp>>

\* ------------------------------------------------- POST /prompts
SessionNotActive(s) == sessions[s].status # "active"
\* The expiry check of line 108 with its comparison turned round.
SessionHasExpired_Reversed(s) == sessions[s].expiresAt > now
\* line 108: new Date(session.expiresAt) < new Date()
SessionHasExpired(s) == sessions[s].expiresAt < now
\* The production path without the guard of line 189.
NoSessionData_Unchecked(s) == FALSE
\* line 189: !sessionData || !sessionData.apiKey
NoSessionData(s) == ~sessionKeys[s].present \/ sessionKeys[s].apiKey.kind = "none"

\* The handler up to its first network await: the checks, the Prompt record
\* and the read of sessionKeys.
SubmitPromptUpTo(s, cap) ==
  /\ s \in SessionIds
  /\ IF SessionNotActive(s) \/ SessionHasExpired(s)
     THEN /\ resp' = Respond("submit", 400, sessions, s, NoKey)
          /\ UNCHANGED <<prompts, submit>>
     ELSE /\ Len(prompts) < cap
          /\ prompts' = Append(prompts, NewPrompt(s))
          /\ IF isSimulationMode
             THEN IF ~sessionKeys[s].present
                  THEN /\ submit' = Append(submit, IdleSubmit)
                       /\ resp' = Respond("submit", 400, sessions, s, NoKey)
                  ELSE /\ submit' = Append(submit, [pc |-> "ai", start |-> NoTime,
                                                    data |-> sessionKeys[s]])
                       /\ UNCHANGED resp
             ELSE IF NoSessionData(s)
                  THEN /\ submit' = Append(submit, IdleSubmit)
                       /\ resp' = Respond("submit", 400, sessions, s, NoKey)
                  ELSE /\ submit' = Append(submit, [pc |-> "dispatch", start |-> NoTime,
                                                    data |-> sessionKeys[s]])
                       /\ UNCHANGED resp
  /\ UNCHANGED <<gateway, limiter, wait, relay, pushes, crypto, env, now, sessions, sessionKeys, tasks, creation, getReq>>

SubmitPrompt(s) == SubmitPromptUpTo(s, MaxPrompts)

\* Simulation mode: AIService.execute or AIService.simulate returns or throws.
SimulatedAI(p, answered) ==
  /\ p \in PromptIds
  /\ submit[p].pc = "ai"
  /\ isRealApiKey(submit[p].data.apiKey) \/ answered
  /\ IF answered
     THEN prompts' = complete(prompts, p, Plain(AIContent))
     ELSE prompts' = promptFail(prompts, p, ProviderError)
  /\ submit' = [submit EXCEPT ![p] = IdleSubmit]
  /\ UNCHANGED <<gateway, limiter, wait, relay, pushes, crypto, env, now, sessions, sessionKeys, tasks, creation, getReq, resp>>

\* runAIOracle returns: the three secrets are pushed with the values read
\* at line 188, the deal is matched and the task id recorded.
OracleDispatch(p) ==
  /\ p \in PromptIds
  /\ submit[p].pc = "dispatch"
  /\ LET t == Len(tasks) + 1
         data == submit[p].data
     IN /\ tasks' = Append(tasks,
              NewTask("oracle", prompts[p].sessionId, p, 0,
                      prompts[p].encryptedPrompt,
                      JSONStringify([key |-> data.key, iv |-> data.iv]),
                      data.apiKey))
        /\ prompts' = promptUpdateTaskId(prompts, p, t)
  /\ submit' = [submit EXCEPT ![p] = [pc |-> "wait", start |-> now, data |-> NoEntry]]
  /\ UNCHANGED <<gateway, limiter, wait, relay, pushes, crypto, env, now, sessions, sessionKeys, creation, getReq, resp>>

\* runAIOracle throws: the outer catch answers 500.
OracleDispatchThrow(p) ==
  /\ p \in PromptIds
  /\ submit[p].pc = "dispatch"
  /\ submit' = [submit EXCEPT ![p] = IdleSubmit]
  /\ UNCHANGED <<gateway, limiter, wait, relay, pushes, crypto, env, now, sessions, sessionKeys, prompts, tasks, creation, getReq, resp>>

\* One poll of waitForTaskResult(taskId, 300000) that meets a finished task.
SubmitPoll(p, fetched) ==
  /\ p \in PromptIds
  /\ submit[p].pc = "wait"
  /\ now - submit[p].start < TaskWaitTicks
  /\ LET task == tasks[prompts[p].taskId]
         result == task.output
     IN /\ task.status \in {"COMPLETED", "FAILED"}
        /\ IF task.status = "COMPLETED" /\ fetched
           THEN IF result.success /\ result.response.kind # "none"
                THEN prompts' = complete(prompts, p, result.response)
                ELSE prompts' = promptFail(prompts, p,
                            IF result.error # "" THEN result.error ELSE UnknownTEEError)
           ELSE UNCHANGED prompts
  /\ submit' = [submit EXCEPT ![p] = IdleSubmit]
  /\ UNCHANGED <<gateway, limiter, wait, relay, pushes, crypto, env, now, sessions, sessionKeys, tasks, creation, getReq, resp>>

\* 'Task timed out': the catch (waitError) answers 500.
SubmitTimeout(p) ==
  /\ p \in PromptIds
  /\ submit[p].pc = "wait"
  /\ now - submit[p].start >= TaskWaitTicks
  /\ submit' = [submit EXCEPT ![p] = [IdleSubmit EXCEPT !.pc = "timeout"]]
  /\ UNCHANGED <<gateway, limiter, wait, relay, pushes, crypto, env, now, sessions, sessionKeys, prompts, tasks, creation, getReq, resp>>

\* GET /prompts/:promptId: the stored record, as it is.
GetPrompt(p) ==
  /\ p \in PromptIds
  /\ resp' = [op |-> "prompt", code |-> 200, sid |-> p, status |-> prompts[p].status,
              key |-> NoKey]
  /\ UNCHANGED <<gateway, limiter, wait, relay, pushes, crypto, env, now, sessions, sessionKeys, prompts, tasks, creation, getReq, submit>>

Next ==
  \/ Tick
  \/ Sweep
  \/ \E cred \in Credentials, d \in Durations : CreateSessionSim(cred, d)
  \/ \E cred \in Credentials, d \in Durations : CreateSessionProd(cred, d)
  \/ \E s \in SessionIds : KMDispatch(s)
  \/ \E s \in SessionIds : KMDispatchThrow(s)
  \/ \E s \in SessionIds, fetched \in BOOLEAN : WaiterPoll(s, fetched)
  \/ \E s \in SessionIds : WaiterTimeout(s)
  \/ \E s \in SessionIds : GetSession(s)
  \/ \E s \in SessionIds, fetched \in BOOLEAN : GetSessionResult(s, fetched)
  \/ \E s \in SessionIds : RevokeSession(s)
  \/ \E t \in TaskIds \cup {UnknownTask}, status \in {"COMPLETED", "FAILED"}, signed \in BOOLEAN :
       Webhook(t, status, signed)
  \/ \E s \in SessionIds : SubmitPrompt(s)
  \/ \E p \in PromptIds, answered \in BOOLEAN : SimulatedAI(p, answered)
  \/ \E p \in PromptIds : OracleDispatch(p)
  \/ \E p \in PromptIds : OracleDispatchThrow(p)
  \/ \E p \in PromptIds, fetched \in BOOLEAN : SubmitPoll(p, fetched)
  \/ \E p \in PromptIds : SubmitTimeout(p)
  \/ \E p \in PromptIds : GetPrompt(p)
  \/ \E t \in TaskIds, d1 \in BOOLEAN : TaskRunKM(t, d1)
  \/ \E t \in TaskIds, delivered, providerOk \in BOOLEAN :
       TaskRunOracle(t, delivered, providerOk)
  \/ \E t \in TaskIds : TaskFail(t)

Spec == Init /\ [][Next]_vars

\* The sweep runs on a timer, whatever the handlers do.
FairSpec == Init /\ [][Next]_vars /\ WF_vars(Sweep)

\* ------------------------------------- prompts against an active session
\* The Coordinator once a session has been created and activated, before
\* any prompt: in simulation mode the state CreateSessionSim leaves, in
\* production mode the state after CreateSessionProd, KMDispatch, the
\* KeyManager run and the background waiter's activation.
ActiveSessionSim(cred, d) ==
  /\ isSimulationMode
  /\ sessions = activate(<<NewSession(d)>>, 1, [key |-> generateSessionKey(1).key, iv |-> 0])
  /\ sessionKeys = <<[present |-> TRUE, key |-> generateSessionKey(1).key,
                      iv |-> generateSessionKey(1).iv, apiKey |-> Plain(cred)]>>
  /\ tasks = <<>>
  /\ creation = <<IdleCreation>>
  /\ resp = Respond("create", 201, sessions, 1, generateSessionKey(1))

ActiveSessionProd(cred, d) ==
  LET created == updateTaskId(<<NewSession(d)>>, 1, 1)
      result == KeyManagerMain(1, Plain(cred), 1, created[1].expiresAt)
  IN /\ ~isSimulationMode
     /\ sessions = activate(created, 1, [key |-> result.sessionKey.key, iv |-> 0])
     /\ sessionKeys = <<StoredEntry(result)>>
     /\ tasks = <<[NewTask("km", 1, 0, created[1].expiresAt, Plain(cred), NoStr, NoStr)
                    EXCEPT !.status = "COMPLETED", !.output = result]>>
     /\ creation = <<[pc |-> "done", start |-> NoTime, cred |-> NoStr]>>
     /\ resp = Respond("create", 201, created, 1, NoKey)

PromptInit ==
  /\ env \in [simulation : BOOLEAN, nodeEnv : {"development", "production"}]
  /\ now = 0
  /\ \E cred \in Credentials, d \in Durations :
       ActiveSessionSim(cred, d) \/ ActiveSessionProd(cred, d)
  /\ getReq = <<"idle">>
  /\ prompts = <<>>
  /\ submit = <<>>
  /\ relay = NoSecrets
  /\ pushes = <<>>
  /\ crypto = NoCrypto
  /\ wait = NoWait
  /\ gateway = GatewayDeployed
  /\ limiter = NoLimiter

PromptNext ==
  \/ Tick
  \/ \E s \in SessionIds : SubmitPromptUpTo(s, MaxConcurrentPrompts)
  \/ \E p \in PromptIds, answered \in BOOLEAN : SimulatedAI(p, answered)
  \/ \E p \in PromptIds : OracleDispatch(p)
  \/ \E p \in PromptIds : OracleDispatchThrow(p)
  \/ \E p \in PromptIds, fetched \in BOOLEAN : SubmitPoll(p, fetched)
  \/ \E p \in PromptIds : SubmitTimeout(p)
  \/ \E t \in TaskIds \cup {UnknownTask}, status \in {"COMPLETED", "FAILED"}, signed \in BOOLEAN :
       Webhook(t, status, signed)
  \/ \E t \in TaskIds, delivered, providerOk \in BOOLEAN :
       TaskRunOracle(t, delivered, providerOk)
  \/ \E t \in TaskIds : TaskFail(t)

PromptSpec == PromptInit /\ [][PromptNext]_vars

\* ------------------------------------------ the TEE applications alone
\* The two applications are public on the platform: any requester can match
\* an order for them and bind whatever requester secrets it likes.
MaxEnclaveTasks == 1

AppDeveloperSecrets == {NoStr, Plain("sk-app-DEV")}
KMSecrets == {NoStr, Plain(""), Plain("sk-test-ABC")}
OraclePrompts == {NoStr, Plain(PromptText)}
RelayedKey == generateSessionKey(1)
\* IEXEC_REQUESTER_SECRET_2: absent, not JSON, the session key, another
\* session's key, the session key with another iv.
SessionKeySecrets ==
  {NoStr, Plain("not-json"), JSONStringify(RelayedKey),
   JSONStringify(generateSessionKey(2)),
   JSONStringify([key |-> RelayedKey.key, iv |-> generateSessionKey(2).iv])}
\* IEXEC_REQUESTER_SECRET_3: absent, not a ciphertext, the KeyManager's
\* ciphertext, a ciphertext of text that is not JSON, a ciphertext of JSON
\* with no apiKey.
CredentialSecrets ==
  {NoStr, Plain("zz"),
   KMEncrypt([apiKey |-> Plain("sk-test-ABC"), sessionId |-> 1, expiresAt |-> 1],
             RelayedKey.key, RelayedKey.iv),
   Encrypt(Plain("sk-test-ABC"), RelayedKey.key, RelayedKey.iv),
   KMEncrypt([apiKey |-> NoStr, sessionId |-> 1, expiresAt |-> 1],
             RelayedKey.key, RelayedKey.iv)}

EnclaveInit ==
  /\ env \in [simulation : BOOLEAN, nodeEnv : {"development", "production"}]
  /\ now = 0
  /\ sessions = <<>>
  /\ sessionKeys = <<>>
  /\ prompts = <<>>
  /\ tasks = <<>>
  /\ creation = <<>>
  /\ getReq = <<>>
  /\ submit = <<>>
  /\ resp = NoResp
  /\ relay = NoSecrets
  /\ pushes = <<>>
  /\ crypto = NoCrypto
  /\ wait = NoWait
  /\ gateway = GatewayDeployed
  /\ limiter = NoLimiter

\* A requester matches an order for the KeyManager.
EnclaveDealKM(s1) ==
  /\ Len(tasks) < MaxEnclaveTasks
  /\ tasks' = Append(tasks, NewTask("km", 0, 0, 0, s1, NoStr, NoStr))
  /\ UNCHANGED <<gateway, limiter, wait, relay, pushes, crypto, env, now, sessions, sessionKeys, prompts, creation, getReq, submit, resp>>

\* A requester matches an order for the PrivateAI Oracle.
EnclaveDealOracle(s1, s2, s3) ==
  /\ Len(tasks) < MaxEnclaveTasks
  /\ tasks' = Append(tasks, NewTask("oracle", 0, 0, 0, s1, s2, s3))
  /\ UNCHANGED <<gateway, limiter, wait, relay, pushes, crypto, env, now, sessions, sessionKeys, prompts, creation, getReq, submit, resp>>

EnclaveRunOracle(t, appSecret, providerOk) ==
  /\ t \in TaskIds
  /\ OracleRun(t, tasks[t].secret1, tasks[t].secret2, tasks[t].secret3, appSecret,
               providerOk)

EnclaveNext ==
  \/ \E s1 \in KMSecrets : EnclaveDealKM(s1)
  \/ \E s1 \in OraclePrompts, s2 \in SessionKeySecrets, s3 \in CredentialSecrets :
       EnclaveDealOracle(s1, s2, s3)
  \/ \E t \in TaskIds, d1 \in BOOLEAN : TaskRunKM(t, d1)
  \/ \E t \in TaskIds, appSecret \in AppDeveloperSecrets, providerOk \in BOOLEAN :
       EnclaveRunOracle(t, appSecret, providerOk)
  \/ \E t \in TaskIds : TaskFail(t)

EnclaveSpec == EnclaveInit /\ [][EnclaveNext]_vars

\* ------------------------------- the AIOracle that encrypts its response
\* The AIOracle of the first version takes the session key as its only
\* requester secret and the provider API keys from the app developer secret;
\* its record carries the response encrypted under the session key.
MaxSessionKeyTasks == 2

AIOracleNoAppSecretError == "App Secret not configured - API keys missing"
AIOracleNoSessionKeyError == "Session key not provided via IEXEC_REQUESTER_SECRET_1"
AIOracleNoApiKeyError == "API key for provider not found in App Secret"
InvalidKeyLengthError == "Invalid key length"

AIOracleAppSecrets == {NoStr, JSONStringify([OPENAI_API_KEY |-> Plain("sk-app-DEV")])}

\* parseSessionKey: null when the secret is absent, the parsed JSON, or the
\* secret itself taken as a raw key with no iv.
parseSessionKey(secret) ==
  IF Falsy(secret) THEN NoKey
  ELSE IF IsJSON(secret) THEN JSONParse(secret)
  ELSE [key |-> -1, iv |-> 0]

\* encryptWithSessionKey(data, sessionKey) in task t: the iv of the session
\* key when it has one, 16 fresh random bytes otherwise; returns the
\* ciphertext and the iv.
encryptWithSessionKey(t, data, sessionKey) ==
  LET iv == IF sessionKey.iv # 0 THEN sessionKey.iv ELSE generateSessionKey(t).iv
  IN [kind |-> "encrypted",
      encrypted |-> Encrypt(JSONStringify(data), sessionKey.key, iv),
      iv |-> iv]

\* AIOracle main and main().catch: the result.json of one run of task t.
AIOracleMain(t, appSecret, secret1, providerOk) ==
  IF ~IsJSON(appSecret) THEN Failure(AIOracleNoAppSecretError)
  ELSE IF parseSessionKey(secret1) = NoKey THEN Failure(AIOracleNoSessionKeyError)
  ELSE IF Falsy(JSONParse(appSecret).OPENAI_API_KEY) THEN Failure(AIOracleNoApiKeyError)
  ELSE IF ~providerOk THEN Failure(ProviderError)
  ELSE IF parseSessionKey(secret1).key = -1 THEN Failure(InvalidKeyLengthError)
  ELSE [NoOutput EXCEPT
          !.present = TRUE, !.success = TRUE,
          !.response = encryptWithSessionKey(t, Plain(AIContent), parseSessionKey(secret1))]

\* The session keys a requester holds: those the KeyManager has put in the
\* record of a finished task, and the same keys with the iv left out.
HeldSessionKeys ==
  UNION {{JSONStringify(tasks[k].output.sessionKey),
          JSONStringify([tasks[k].output.sessionKey EXCEPT !.iv = 0])} :
         k \in {j \in TaskIds : /\ tasks[j].kind = "km"
                                 /\ tasks[j].status = "COMPLETED"
                                 /\ tasks[j].output.success}}

\* A requester matches an order for the KeyManager.
KeyManagerDeal(s1) ==
  /\ Len(tasks) < MaxSessionKeyTasks
  /\ tasks' = Append(tasks, NewTask("km", 0, 0, 0, s1, NoStr, NoStr))
  /\ UNCHANGED <<gateway, limiter, wait, relay, pushes, crypto, env, now, sessions, sessionKeys, prompts, creation, getReq, submit, resp>>

\* A requester matches an order for the AIOracle, with its session-key secret.
AIOracleDeal(s1) ==
  /\ Len(tasks) < MaxSessionKeyTasks
  /\ tasks' = Append(tasks, NewTask("aioracle", 0, 0, 0, s1, NoStr, NoStr))
  /\ UNCHANGED <<gateway, limiter, wait, relay, pushes, crypto, env, now, sessions, sessionKeys, prompts, creation, getReq, submit, resp>>

AIOracleRun(t, appSecret, providerOk) ==
  /\ t \in TaskIds
  /\ tasks[t].kind = "aioracle"
  /\ tasks[t].status = "ACTIVE"
  /\ tasks' = [tasks EXCEPT
       ![t].status = "COMPLETED",
       ![t].output = AIOracleMain(t, appSecret, tasks[t].secret1, providerOk),
       ![t].called = /\ IsJSON(appSecret)
                     /\ parseSessionKey(tasks[t].secret1) # NoKey
                     /\ ~Falsy(JSONParse(appSecret).OPENAI_API_KEY)]
  /\ UNCHANGED <<gateway, limiter, wait, relay, pushes, crypto, env, now, sessions, sessionKeys, prompts, creation, getReq, submit, resp>>

SessionKeyNext ==
  \/ \E s1 \in {Plain("sk-test-ABC")} : KeyManagerDeal(s1)
  \/ \E s1 \in {NoStr, Plain("not-json")} \cup HeldSessionKeys : AIOracleDeal(s1)
  \/ \E t \in TaskIds, d1 \in BOOLEAN : TaskRunKM(t, d1)
  \/ \E t \in TaskIds, appSecret \in AIOracleAppSecrets, providerOk \in BOOLEAN :
       AIOracleRun(t, appSecret, providerOk)
  \/ \E t \in TaskIds : TaskFail(t)

SessionKeySpec == EnclaveInit /\ [][SessionKeyNext]_vars

\* ------------------------------------------- pushing secrets to the SMS
\* The KeyManager of the first version pushes each session key to the SMS
\* under the dedicated address; several runs may push concurrently.
MaxPushes == 3

\* An SMS that takes a push for a bound name as an update.
pushRequesterSecret_Overwrites(secrets, name, value) == [secrets EXCEPT ![name] = value]

\* iexec.secrets.pushRequesterSecret on the SMS: a secret, once pushed,
\* cannot be modified; the push of a bound name is refused.
pushRequesterSecret(secrets, name, value) ==
  IF secrets[name] = NoStr THEN [secrets EXCEPT ![name] = value] ELSE secrets

\* iexec.secrets.checkRequesterSecretExists
checkRequesterSecretExists(secrets, name) == secrets[name] # NoStr

\* pushToSMS is entered: generate-session has drawn its session key.
PushStart(base) ==
  /\ Len(pushes) < MaxPushes
  /\ pushes' = Append(pushes,
       [pc |-> "check", name |-> [base |-> base, ts |-> NoTime],
        value |-> JSONStringify(generateSessionKey(Len(pushes) + 1))])
  /\ UNCHANGED <<gateway, limiter, wait, relay, crypto, env, now, sessions, sessionKeys, prompts, tasks, creation,
                 getReq, submit, resp>>

\* await checkRequesterSecretExists; a taken name gets '-' + Date.now().
PushCheck(i) ==
  /\ i \in DOMAIN pushes
  /\ pushes[i].pc = "check"
  /\ pushes' = [pushes EXCEPT
       ![i].pc = "push",
       ![i].name = IF checkRequesterSecretExists(relay, pushes[i].name)
                   THEN [pushes[i].name EXCEPT !.ts = now]
                   ELSE pushes[i].name]
  /\ UNCHANGED <<gateway, limiter, wait, relay, crypto, env, now, sessions, sessionKeys, prompts, tasks, creation,
                 getReq, submit, resp>>

\* pushToSMS reporting success without looking at the outcome of the push.
PushSecret_ReportsPushed(i) ==
  /\ i \in DOMAIN pushes
  /\ pushes[i].pc = "push"
  /\ relay' = pushRequesterSecret(relay, pushes[i].name, pushes[i].value)
  /\ pushes' = [pushes EXCEPT ![i].pc = "pushed"]
  /\ UNCHANGED <<gateway, limiter, wait, crypto, env, now, sessions, sessionKeys, prompts, tasks, creation, getReq,
                 submit, resp>>

\* await pushRequesterSecret: stored, or refused and thrown to main().catch.
PushSecret(i) ==
  /\ i \in DOMAIN pushes
  /\ pushes[i].pc = "push"
  /\ relay' = pushRequesterSecret(relay, pushes[i].name, pushes[i].value)
  /\ pushes' = [pushes EXCEPT
       ![i].pc = IF relay'[pushes[i].name] = pushes[i].value THEN "pushed" ELSE "refused"]
  /\ UNCHANGED <<gateway, limiter, wait, crypto, env, now, sessions, sessionKeys, prompts, tasks, creation, getReq,
                 submit, resp>>

RelayNext ==
  \/ Tick
  \/ \E base \in SecretBases : PushStart(base)
  \/ \E i \in DOMAIN pushes : PushCheck(i)
  \/ \E i \in DOMAIN pushes : PushSecret(i)

RelaySpec == EnclaveInit /\ [][RelayNext]_vars

\* ------------------------------------------- the encrypt/decrypt pairs
\* aes-256-cbc, scaled down: a byte has 4 bits, a block 2 bytes, and the
\* block cipher is a keyed permutation of the 256 block values.  A string is
\* the sequence of its code points: 0..7 take one byte in UTF-8, 16..31 two.
MaxTextLen == 2
BlockLen == 2
ByteRange == 16
BlockRange == 256

Quote == 2
Backslash == 3
EAcute == 17
ReplacementChar == 23
TextChars == {1, Quote, Backslash, EAcute}
CryptoKeys == {1, 3, 5}
CryptoIVs == {2, 4}

RECURSIVE Xor(_, _)
Xor(x, y) ==
  IF x = 0 THEN y
  ELSE IF y = 0 THEN x
  ELSE (2 * Xor(x \div 2, y \div 2)) + ((x + y) % 2)

RECURSIVE Flatten(_)
Flatten(ss) == IF ss = <<>> THEN <<>> ELSE Head(ss) \o Flatten(Tail(ss))

\* Buffer.from(str, 'utf8')
UTF8Char(c) == IF c < 8 THEN <<c>> ELSE <<12 + ((c - 16) \div 4), 8 + ((c - 16) % 4)>>
UTF8Encode(str) == Flatten([i \in DOMAIN str |-> UTF8Char(str[i])])

\* buffer.toString('utf8'): an ill-formed sequence becomes U+FFFD, never
\* an exception.
RECURSIVE UTF8Decode(_)
UTF8Decode(bytes) ==
  IF bytes = <<>> THEN <<>>
  ELSE IF bytes[1] < 8 THEN <<bytes[1]>> \o UTF8Decode(Tail(bytes))
  ELSE IF bytes[1] >= 12 /\ Len(bytes) >= 2 /\ bytes[2] \in 8..11
  THEN <<16 + ((bytes[1] - 12) * 4) + (bytes[2] - 8)>> \o UTF8Decode(Tail(Tail(bytes)))
  ELSE <<ReplacementChar>> \o UTF8Decode(Tail(bytes))

\* toString('hex') and Buffer.from(hex, 'hex')
HexDigits == <<"0", "1", "2", "3", "4", "5", "6", "7", "8", "9", "a", "b", "c", "d", "e", "f">>
HexEncode(bytes) == [i \in DOMAIN bytes |-> HexDigits[bytes[i] + 1]]
HexDecode(hex) == [i \in DOMAIN hex |-> (CHOOSE b \in 1..ByteRange : HexDigits[b] = hex[i]) - 1]

\* PKCS#7 padding, as cipher.final() adds it and decipher.final() checks it.
Pad(bytes) ==
  LET n == BlockLen - (Len(bytes) % BlockLen)
  IN bytes \o [i \in 1..n |-> n]
PaddingOk(bytes) ==
  /\ Len(bytes) > 0
  /\ Len(bytes) % BlockLen = 0
  /\ bytes[Len(bytes)] \in 1..BlockLen
  /\ \A i \in (Len(bytes) - bytes[Len(bytes)] + 1)..Len(bytes) : bytes[i] = bytes[Len(bytes)]
\* Unpad that keeps the padding bytes.
Unpad_Kept(bytes) == bytes
Unpad(bytes) == SubSeq(bytes, 1, Len(bytes) - bytes[Len(bytes)])

\* The block cipher under key k and its inverse.
BlockEncrypt(k, x) == (((2 * k + 3) * x) + (17 * k)) % BlockRange
BlockDecrypt(k, y) == CHOOSE x \in 0..(BlockRange - 1) : BlockEncrypt(k, x) = y

ToBlocks(bytes) ==
  [i \in 1..(Len(bytes) \div BlockLen) |-> (ByteRange * bytes[2 * i - 1]) + bytes[2 * i]]
FromBlocks(blocks) ==
  Flatten([i \in DOMAIN blocks |-> <<blocks[i] \div ByteRange, blocks[i] % ByteRange>>])

\* CBC chaining.
RECURSIVE CBCEncrypt(_, _, _)
CBCEncrypt(blocks, k, prev) ==
  IF blocks = <<>> THEN <<>>
  ELSE LET c == BlockEncrypt(k, Xor(Head(blocks), prev))
       IN <<c>> \o CBCEncrypt(Tail(blocks), k, c)
RECURSIVE CBCDecrypt(_, _, _)
CBCDecrypt(blocks, k, prev) ==
  IF blocks = <<>> THEN <<>>
  ELSE <<Xor(BlockDecrypt(k, Head(blocks)), prev)>> \o CBCDecrypt(Tail(blocks), k, Head(blocks))

Thrown == [ok |-> FALSE, v |-> <<>>]
Returned(v) == [ok |-> TRUE, v |-> v]

\* createCipheriv('aes-256-cbc', key, iv): update(data, 'utf8', 'hex') +
\* final('hex')
CipherHex(str, key, iv) ==
  HexEncode(FromBlocks(CBCEncrypt(ToBlocks(Pad(UTF8Encode(str))), key, iv)))
\* createDecipheriv('aes-256-cbc', key, iv): update(hex, 'hex', 'utf8') +
\* final('utf8'), which throws on a wrong length or bad padding.
DecipherHex(hex, key, iv) ==
  IF Len(hex) = 0 \/ Len(hex) % BlockLen # 0 THEN Thrown
  ELSE LET bytes == FromBlocks(CBCDecrypt(ToBlocks(HexDecode(hex)), key, iv))
       IN IF PaddingOk(bytes) THEN Returned(UTF8Decode(Unpad(bytes))) ELSE Thrown

\* JSON.stringify and JSON.parse of a string.
JSONEscape(str) ==
  Flatten([i \in DOMAIN str |->
             IF str[i] \in {Quote, Backslash} THEN <<Backslash, str[i]>> ELSE <<str[i]>>])
JSONText(str) == <<Quote>> \o JSONEscape(str) \o <<Quote>>
RECURSIVE JSONUnescape(_)
JSONUnescape(body) ==
  IF body = <<>> THEN Returned(<<>>)
  ELSE IF Head(body) = Quote THEN Thrown
  ELSE IF Head(body) = Backslash
  THEN IF Len(body) >= 2 /\ body[2] \in {Quote, Backslash}
       THEN LET rest == JSONUnescape(Tail(Tail(body)))
            IN IF rest.ok THEN Returned(<<body[2]>> \o rest.v) ELSE Thrown
       ELSE Thrown
  ELSE LET rest == JSONUnescape(Tail(body))
       IN IF rest.ok THEN Returned(<<Head(body)>> \o rest.v) ELSE Thrown
JSONValue(text) ==
  IF Len(text) >= 2 /\ text[1] = Quote /\ text[Len(text)] = Quote
  THEN JSONUnescape(SubSeq(text, 2, Len(text) - 1))
  ELSE Thrown

\* CryptoService.encrypt / decrypt
CryptoServiceEncrypt(data, sessionKey) == CipherHex(data, sessionKey.key, sessionKey.iv)
CryptoServiceDecrypt(encryptedData, sessionKey) ==
  DecipherHex(encryptedData, sessionKey.key, sessionKey.iv)

\* KeyManager encrypt / decrypt
KeyManagerEncrypt(data, key, iv) == CipherHex(JSONText(data), key, iv)
KeyManagerDecrypt(encryptedData, key, iv) ==
  LET decrypted == DecipherHex(encryptedData, key, iv)
  IN IF decrypted.ok THEN JSONValue(decrypted.v) ELSE Thrown

\* PrivateAI Oracle decryptApiKey
decryptApiKey(encryptedHex, keyHex, ivHex) == DecipherHex(encryptedHex, keyHex, ivHex)

RECURSIVE TextsUpTo(_)
TextsUpTo(n) ==
  IF n = 0 THEN {<<>>}
  ELSE TextsUpTo(n - 1) \cup {Append(s, c) : s \in TextsUpTo(n - 1), c \in TextChars}

CryptoInit ==
  /\ EnclaveInit
  /\ relay = NoSecrets

CryptoStart ==
  /\ crypto.pc = "none"
  /\ \E data \in TextsUpTo(MaxTextLen), key \in CryptoKeys, iv \in CryptoIVs :
       crypto' = [pc |-> "start", data |-> data, key |-> key, iv |-> iv]
  /\ UNCHANGED <<gateway, limiter, wait, relay, pushes, env, now, sessions, sessionKeys, prompts, tasks, creation,
                 getReq, submit, resp>>

CryptoEncrypt(pair) ==
  /\ crypto.pc = "start"
  /\ crypto' = [pc |-> "encrypted", pair |-> pair, data |-> crypto.data, key |-> crypto.key,
                iv |-> crypto.iv,
                encrypted |->
                  IF pair = "CryptoService"
                  THEN CryptoServiceEncrypt(crypto.data, [key |-> crypto.key, iv |-> crypto.iv])
                  ELSE KeyManagerEncrypt(crypto.data, crypto.key, crypto.iv)]
  /\ UNCHANGED <<gateway, limiter, wait, relay, pushes, env, now, sessions, sessionKeys, prompts, tasks, creation,
                 getReq, submit, resp>>

CryptoDecrypt(key, iv) ==
  /\ crypto.pc = "encrypted"
  /\ crypto' = [pc |-> "decrypted", pair |-> crypto.pair, data |-> crypto.data,
                key |-> crypto.key, iv |-> crypto.iv, encrypted |-> crypto.encrypted,
                key2 |-> key, iv2 |-> iv,
                decrypted |->
                  IF crypto.pair = "CryptoService"
                  THEN CryptoServiceDecrypt(crypto.encrypted, [key |-> key, iv |-> iv])
                  ELSE IF crypto.pair = "KeyManager"
                  THEN KeyManagerDecrypt(crypto.encrypted, key, iv)
                  ELSE decryptApiKey(crypto.encrypted, key, iv)]
  /\ UNCHANGED <<gateway, limiter, wait, relay, pushes, env, now, sessions, sessionKeys, prompts, tasks, creation,
                 getReq, submit, resp>>

CryptoNext ==
  \/ CryptoStart
  \/ \E pair \in {"CryptoService", "KeyManager", "KeyManagerForOracle"} : CryptoEncrypt(pair)
  \/ \E key \in CryptoKeys, iv \in CryptoIVs : CryptoDecrypt(key, iv)

CryptoSpec == CryptoInit /\ [][CryptoNext]_vars

\* ------------------------------------------- POST /sessions, validated
\* The request as it arrives, with sessionDuration in seconds; one tick of
\* the clock is SecondsPerTick seconds.
SecondsPerTick == 300
MinSessionDuration == 300
MaxSessionDuration == 86400
RequestDurations ==
  {-SecondsPerTick, 0, MinSessionDuration - 1, MaxSessionDuration + 1}
    \cup {SecondsPerTick * d : d \in Durations}

\* createSessionSchema without its lower limit.
ValidDuration_NoMinimum(seconds) == seconds <= MaxSessionDuration

\* createSessionSchema: sessionDuration: z.number().min(300).max(86400)
ValidDuration(seconds) == seconds >= MinSessionDuration /\ seconds <= MaxSessionDuration

\* validateRequest(createSessionSchema) refuses the request: 400, and the
\* handler is not entered.
CreateSessionRefused(seconds) ==
  /\ ~ValidDuration(seconds)
  /\ resp' = [op |-> "create", code |-> 400, sid |-> 0, status |-> "none", key |-> NoKey]
  /\ UNCHANGED <<gateway, limiter, wait, relay, pushes, crypto, env, now, sessions, sessionKeys, prompts, tasks,
                 creation, getReq, submit>>

\* POST /sessions once validateRequest(createSessionSchema) has let the
\* request through.
CreateSessionSimValidated(cred, seconds) ==
  /\ ValidDuration(seconds)
  /\ CreateSessionSim(cred, seconds \div SecondsPerTick)

CreateSessionProdValidated(cred, seconds) ==
  /\ ValidDuration(seconds)
  /\ CreateSessionProd(cred, seconds \div SecondsPerTick)

CreateNext ==
  \/ Tick
  \/ Sweep
  \/ \E seconds \in RequestDurations : CreateSessionRefused(seconds)
  \/ \E cred \in Credentials, seconds \in RequestDurations :
       CreateSessionSimValidated(cred, seconds)
  \/ \E cred \in Credentials, seconds \in RequestDurations :
       CreateSessionProdValidated(cred, seconds)
  \/ \E s \in SessionIds : KMDispatch(s)
  \/ \E s \in SessionIds : KMDispatchThrow(s)
  \/ \E s \in SessionIds, fetched \in BOOLEAN : WaiterPoll(s, fetched)
  \/ \E s \in SessionIds : WaiterTimeout(s)
  \/ \E s \in SessionIds : GetSession(s)
  \/ \E s \in SessionIds, fetched \in BOOLEAN : GetSessionResult(s, fetched)
  \/ \E s \in SessionIds : RevokeSession(s)
  \/ \E t \in TaskIds, d1 \in BOOLEAN : TaskRunKM(t, d1)
  \/ \E t \in TaskIds : TaskFail(t)

CreateSpec == Init /\ [][CreateNext]_vars

\* ------------------------------------------- the sweep on a full table
\* The sweep over a session table with several sessions, of every status
\* a session can have before a sweep or a revocation has touched it.
MaxSweepSessions == 3

SweepRecords ==
  {[NewSession(d) EXCEPT !.status = st, !.createdAt = 0, !.expiresAt = d] :
     st \in {"pending", "active", "failed"}, d \in Durations}

SweepInit ==
  /\ env \in [simulation : BOOLEAN, nodeEnv : {"development", "production"}]
  /\ now = 0
  /\ \E n \in 0..MaxSweepSessions : sessions \in [1..n -> SweepRecords]
  /\ sessionKeys = [s \in DOMAIN sessions |-> NoEntry]
  /\ creation = [s \in DOMAIN sessions |-> IdleCreation]
  /\ getReq = [s \in DOMAIN sessions |-> "idle"]
  /\ prompts = <<>>
  /\ tasks = <<>>
  /\ submit = <<>>
  /\ resp = NoResp
  /\ relay = NoSecrets
  /\ pushes = <<>>
  /\ crypto = NoCrypto
  /\ wait = NoWait
  /\ gateway = GatewayDeployed
  /\ limiter = NoLimiter

SweepNext ==
  \/ Tick
  \/ Sweep
  \/ \E s \in SessionIds : RevokeSession(s)

SweepSpec == SweepInit /\ [][SweepNext]_vars

\* ------------------------------------------------- waitForTaskResult
\* IExecService.waitForTaskResult(taskId, timeout), statement by statement,
\* for the one task of a matched deal.
TaskTimedOutError == "Task timed out"
UnknownFormatError == "Unknown result format"
FetchFailedError == "Failed to fetch result"
NoResultFileError == "result.json or computed.json not found in result"
ResultParseError == "SyntaxError"
ShowRejectedError == "task.show rejected"
\* What follows an observed COMPLETED: the result is retrieved, or one of the
\* throws of lines 203, 210, 226 and 230 happens.
RetrievalErrors == {UnknownFormatError, FetchFailedError, NoResultFileError, ResultParseError}
WaitedTask == 1

\* The loop condition with the deadline already passed at the first test.
TimeLeft_Never(start) == FALSE
\* line 188: Date.now() - startTime < timeout
TimeLeft(start) == now - start < TaskWaitTicks

\* line 186: startTime = Date.now()
WaitForTaskResult ==
  /\ wait.pc = "none"
  /\ now + TaskWaitTicks <= MaxTime
  /\ wait' = [wait EXCEPT !.pc = "while", !.start = now]
  /\ UNCHANGED <<gateway, limiter, relay, pushes, crypto, env, now, sessions, sessionKeys, prompts, tasks,
                 creation, getReq, submit, resp>>

\* lines 188 and 236: the test of the while, and the throw after the loop.
WaitLoopTest ==
  /\ wait.pc = "while"
  /\ IF TimeLeft(wait.start)
     THEN wait' = [wait EXCEPT !.pc = "show"]
     ELSE wait' = [wait EXCEPT !.pc = "thrown", !.error = TaskTimedOutError]
  /\ UNCHANGED <<gateway, limiter, relay, pushes, crypto, env, now, sessions, sessionKeys, prompts, tasks,
                 creation, getReq, submit, resp>>

\* lines 189-192 and 233: task.show settles; a rejection leaves the function.
WaitShow(showOk) ==
  /\ wait.pc = "show"
  /\ LET status == tasks[WaitedTask].status
     IN IF ~showOk
        THEN wait' = [wait EXCEPT !.pc = "thrown", !.error = ShowRejectedError]
        ELSE IF status = "COMPLETED"
        THEN wait' = [wait EXCEPT !.pc = "retrieve", !.seen = status]
        ELSE IF status = "FAILED"
        THEN wait' = [wait EXCEPT !.pc = "thrown", !.seen = status, !.error = TaskFailedError]
        ELSE wait' = [wait EXCEPT !.pc = "sleep", !.seen = status]
  /\ UNCHANGED <<gateway, limiter, relay, pushes, crypto, env, now, sessions, sessionKeys, prompts, tasks,
                 creation, getReq, submit, resp>>

\* lines 194-230: the result location is read, the result downloaded,
\* unzipped and parsed; outcome is "ok" or the throw that ends it.
WaitRetrieve(outcome) ==
  /\ wait.pc = "retrieve"
  /\ IF outcome = "ok"
     THEN wait' = [wait EXCEPT !.pc = "returned", !.result = tasks[WaitedTask].output]
     ELSE wait' = [wait EXCEPT !.pc = "thrown", !.error = outcome]
  /\ UNCHANGED <<gateway, limiter, relay, pushes, crypto, env, now, sessions, sessionKeys, prompts, tasks,
                 creation, getReq, submit, resp>>

\* line 234: the 5 s sleep ends.
WaitSleep ==
  /\ wait.pc = "sleep"
  /\ wait' = [wait EXCEPT !.pc = "while"]
  /\ UNCHANGED <<gateway, limiter, relay, pushes, crypto, env, now, sessions, sessionKeys, prompts, tasks,
                 creation, getReq, submit, resp>>

WaitStep ==
  \/ WaitLoopTest
  \/ \E showOk \in BOOLEAN : WaitShow(showOk)
  \/ \E outcome \in {"ok"} \cup RetrievalErrors : WaitRetrieve(outcome)
  \/ WaitSleep

\* A deal has been matched for one key-manager task, not yet run.
WaitInit ==
  /\ env \in [simulation : BOOLEAN, nodeEnv : {"development", "production"}]
  /\ now = 0
  /\ sessions = <<>>
  /\ sessionKeys = <<>>
  /\ prompts = <<>>
  /\ \E cred \in Credentials :
       tasks = <<NewTask("km", 1, 0, 1, Plain(cred), NoStr, NoStr)>>
  /\ creation = <<>>
  /\ getReq = <<>>
  /\ submit = <<>>
  /\ resp = NoResp
  /\ relay = NoSecrets
  /\ pushes = <<>>
  /\ crypto = NoCrypto
  /\ wait = NoWait
  /\ gateway = GatewayDeployed
  /\ limiter = NoLimiter

WaitNext ==
  \/ Tick
  \/ WaitForTaskResult
  \/ WaitLoopTest
  \/ \E showOk \in BOOLEAN : WaitShow(showOk)
  \/ \E outcome \in {"ok"} \cup RetrievalErrors : WaitRetrieve(outcome)
  \/ WaitSleep
  \/ \E t \in TaskIds, d1 \in BOOLEAN : TaskRunKM(t, d1)
  \/ \E t \in TaskIds : TaskFail(t)

\* Time passes, and every awaited call and timer of the function settles.
WaitSpec == WaitInit /\ [][WaitNext]_vars /\ WF_vars(Tick) /\ WF_vars(WaitStep)

\* ------------------------------------------- runAIOracle, push by push
\* IExecService.runAIOracle for prompts dispatched concurrently: the three
\* Date.now() names, the three pushes to the SMS, the matched deal.
MaxDispatches == 2
MaxDispatchSessions == 2
OracleSecretBases == <<"prompt_", "sessionkey_", "encapikey_">>
OracleSecretNames == [base : {OracleSecretBases[i] : i \in 1..3}, ts : 0..MaxTime]

\* lines 142-144: the values pushed for prompt p, in the order of the pushes.
DispatchValues(p) ==
  <<prompts[p].encryptedPrompt,
    JSONStringify([key |-> submit[p].data.key, iv |-> submit[p].data.iv]),
    submit[p].data.apiKey>>

\* lines 137-139: the next secret name is built from Date.now().
DispatchName(p) ==
  /\ p \in PromptIds
  /\ submit[p].pc = "dispatch"
  /\ Len(submit[p].names) < 3
  /\ submit' = [submit EXCEPT ![p].names =
       Append(@, [base |-> OracleSecretBases[Len(@) + 1], ts |-> now])]
  /\ UNCHANGED <<gateway, limiter, wait, relay, pushes, crypto, env, now, sessions, sessionKeys, prompts, tasks,
                 creation, getReq, resp>>

\* The pushes awaited without their rejection leaving runAIOracle.
DispatchPush_Unchecked(p) ==
  /\ p \in PromptIds
  /\ submit[p].pc = "dispatch"
  /\ Len(submit[p].names) = 3
  /\ submit[p].pushed < 3
  /\ LET i == submit[p].pushed + 1
     IN /\ relay' = pushRequesterSecret(relay, submit[p].names[i], DispatchValues(p)[i])
        /\ submit' = [submit EXCEPT ![p].pushed = i]
  /\ UNCHANGED <<gateway, limiter, wait, pushes, crypto, env, now, sessions, sessionKeys, prompts, tasks,
                 creation, getReq, resp>>

\* lines 142-144: await pushRequesterSecret(name, value); a refused push
\* rejects, and the handler's outer catch answers 500.
DispatchPush(p) ==
  /\ p \in PromptIds
  /\ submit[p].pc = "dispatch"
  /\ Len(submit[p].names) = 3
  /\ submit[p].pushed < 3
  /\ LET i == submit[p].pushed + 1
         name == submit[p].names[i]
     IN /\ relay' = pushRequesterSecret(relay, name, DispatchValues(p)[i])
        /\ IF checkRequesterSecretExists(relay, name)
           THEN submit' = [submit EXCEPT ![p].pc = "done"]
           ELSE submit' = [submit EXCEPT ![p].pushed = i]
  /\ UNCHANGED <<gateway, limiter, wait, pushes, crypto, env, now, sessions, sessionKeys, prompts, tasks,
                 creation, getReq, resp>>

\* lines 154-181 and part_002 line 204: the request order names the three
\* secrets, the deal is matched, and its task will read what the SMS holds
\* under those names.
DispatchMatch(p) ==
  /\ p \in PromptIds
  /\ submit[p].pc = "dispatch"
  /\ submit[p].pushed = 3
  /\ tasks' = Append(tasks,
       NewTask("oracle", prompts[p].sessionId, p, 0, relay[submit[p].names[1]],
               relay[submit[p].names[2]], relay[submit[p].names[3]]))
  /\ prompts' = promptUpdateTaskId(prompts, p, Len(tasks) + 1)
  /\ submit' = [submit EXCEPT ![p].pc = "wait", ![p].start = now]
  /\ UNCHANGED <<gateway, limiter, wait, relay, pushes, crypto, env, now, sessions, sessionKeys, creation,
                 getReq, resp>>

\* Prompts of one or two active sessions, each past line 191 of its handler.
DispatchInit ==
  /\ env \in [simulation : {FALSE}, nodeEnv : {"development", "production"}]
  /\ now = 0
  /\ \E n \in 1..MaxDispatchSessions :
       /\ sessions = [s \in 1..n |->
            activate(<<NewSession(MaxTime)>>, 1, [key |-> generateSessionKey(s).key, iv |-> 0])[1]]
       /\ sessionKeys = [s \in 1..n |->
            StoredEntry(KeyManagerMain(s, Plain("sk-test-ABC"), s, MaxTime))]
       /\ creation = [s \in 1..n |-> IdleCreation]
       /\ getReq = [s \in 1..n |-> "idle"]
       /\ \E of \in [1..MaxDispatches -> 1..n] :
            /\ prompts = [p \in 1..MaxDispatches |->
                 [NewPrompt(of[p]) EXCEPT !.encryptedPrompt = Plain(p)]]
            /\ submit = [p \in 1..MaxDispatches |->
                 [pc |-> "dispatch", start |-> NoTime, data |-> sessionKeys[of[p]],
                  names |-> <<>>, pushed |-> 0]]
  /\ tasks = <<>>
  /\ resp = NoResp
  /\ relay = [n \in OracleSecretNames |-> NoStr]
  /\ pushes = <<>>
  /\ crypto = NoCrypto
  /\ wait = NoWait
  /\ gateway = GatewayDeployed
  /\ limiter = NoLimiter

DispatchNext ==
  \/ Tick
  \/ \E p \in PromptIds : DispatchName(p)
  \/ \E p \in PromptIds : DispatchPush(p)
  \/ \E p \in PromptIds : DispatchMatch(p)

DispatchSpec == DispatchInit /\ [][DispatchNext]_vars

\* --------------------------------------- POST /webhooks/task-complete
\* The route with its request as sent: any task id (also none), any status,
\* any result, and the x-iexec-signature header as it arrives.
MaxWebhookSessions == 2
MaxWebhookPrompts == 2
MaxWebhooks == 1
\* The header: absent, the HMAC of the body, a wrong value of the same
\* length, a value of another length.
Signatures == {"missing", "valid", "forged", "short"}
WebhookTaskIds == {UnknownTask, NoTask} \cup (1..(MaxWebhookSessions + MaxWebhookPrompts))
WebhookResults == {NoOutput, Failure(TaskFailedError),
                   KeyManagerMain(1, Plain("sk-test-ABC"), 1, 1)}

\* verifyWebhookSignature comparing nothing.
verifyWebhookSignature_AcceptsAll(signature, webhookSecret) == "true"
\* verifyWebhookSignature: false without header or secret; timingSafeEqual
\* throws on buffers of different lengths.
verifyWebhookSignature(signature, webhookSecret) ==
  IF signature = "missing" \/ ~webhookSecret THEN "false"
  ELSE IF signature = "short" THEN "throws"
  ELSE IF signature = "valid" THEN "true"
  ELSE "false"

\* The requests answered so far, and the answer to the next one: its
\* status code, with the task id and the signature that came in.
WebhooksAnswered == IF resp.op = "webhook" THEN resp.seq ELSE 0
WebhookResp(code, t, signature) ==
  [op |-> "webhook", code |-> code, sid |-> 0, status |-> "none", key |-> NoKey,
   taskId |-> t, signature |-> signature, seq |-> WebhooksAnswered + 1]

\* router.post('/task-complete'), whole: 401 on a bad signature, 500 from
\* the catch, else the session branch, else the prompt branch.
WebhookRequest(t, status, result, signature) ==
  LET verified == verifyWebhookSignature(signature, env.webhookSecret)
      s == getByTaskId(t)
      p == promptByTaskId(t)
  IN /\ WebhooksAnswered < MaxWebhooks
     /\ IF isProduction /\ verified = "throws"
        THEN /\ resp' = WebhookResp(500, t, signature)
             /\ UNCHANGED <<sessions, prompts>>
        ELSE IF isProduction /\ verified # "true"
        THEN /\ resp' = WebhookResp(401, t, signature)
             /\ UNCHANGED <<sessions, prompts>>
        ELSE /\ resp' = WebhookResp(200, t, signature)
             /\ IF s # 0
                THEN /\ sessions' =
                          IF status = "COMPLETED" THEN activate(sessions, s, result.sessionKey)
                          ELSE IF status = "FAILED"
                          THEN fail(sessions, s,
                                    IF result.error # "" THEN result.error ELSE TaskFailedError)
                          ELSE sessions
                     /\ UNCHANGED prompts
                ELSE IF p # 0
                THEN /\ prompts' =
                          IF status = "COMPLETED"
                          THEN complete(prompts, p, [kind |-> "object", obj |-> result])
                          ELSE IF status = "FAILED"
                          THEN promptFail(prompts, p,
                                    IF result.error # "" THEN result.error ELSE TaskFailedError)
                          ELSE prompts
                     /\ UNCHANGED sessions
                ELSE UNCHANGED <<sessions, prompts>>
     /\ UNCHANGED <<gateway, limiter, wait, relay, pushes, crypto, env, now, sessionKeys, tasks, creation, getReq,
                    submit>>

\* Tables of sessions and prompts, each with the task id of its own deal or
\* with none yet.
WebhookInit ==
  /\ env \in [simulation : {FALSE}, nodeEnv : {"development", "production"},
              webhookSecret : BOOLEAN]
  /\ now = 0
  /\ \E n \in 0..MaxWebhookSessions :
       /\ \E ids \in [1..n -> BOOLEAN], st \in [1..n -> {"pending", "active"}] :
            sessions = [s \in 1..n |->
              [NewSession(MaxTime) EXCEPT !.taskId = IF ids[s] THEN s ELSE NoTask,
                                          !.status = st[s]]]
       /\ sessionKeys = [s \in 1..n |-> NoEntry]
       /\ creation = [s \in 1..n |-> IdleCreation]
       /\ getReq = [s \in 1..n |-> "idle"]
  /\ \E m \in 0..MaxWebhookPrompts :
       /\ \E ids \in [1..m -> BOOLEAN] :
            prompts = [p \in 1..m |->
              IF ids[p] THEN promptUpdateTaskId(<<NewPrompt(1)>>, 1, MaxWebhookSessions + p)[1]
              ELSE NewPrompt(1)]
       /\ submit = [p \in 1..m |-> IdleSubmit]
  /\ tasks = <<>>
  /\ resp = NoResp
  /\ relay = NoSecrets
  /\ pushes = <<>>
  /\ crypto = NoCrypto
  /\ wait = NoWait
  /\ gateway = GatewayDeployed
  /\ limiter = NoLimiter

WebhookNext ==
  \E t \in WebhookTaskIds, status \in {"COMPLETED", "FAILED", "ACTIVE"},
      result \in WebhookResults, signature \in Signatures :
     WebhookRequest(t, status, result, signature)

WebhookSpec == WebhookInit /\ [][WebhookNext]_vars

\* ------------------------------------------------- PrivateAIGateway.sol
\* A call that reverts leaves the storage as it was.
Reverted(fn, sender) == [gateway EXCEPT !.last = [fn |-> fn, sender |-> sender, ok |-> FALSE]]
Called(fn, sender) == [fn |-> fn, sender |-> sender, ok |-> TRUE]

\* modifier onlyOperator
onlyOperator(sender) == sender = gateway.operator \/ sender = "owner"
\* Ownable: modifier onlyOwner
onlyOwner(sender) == sender = "owner"

\* completeRequest lines 220-221, in unsigned integer arithmetic.
PlatformFee(fee) == (fee * gateway.platformFeePercent) \div 100
OperatorFee(fee) == fee - PlatformFee(fee)

\* createRequest: the request is written under its id, whatever the slot
\* held, and the fee stays with the contract.
CreateRequest(sender, value) ==
  /\ gateway.totalRequests < MaxGatewayRequests
  /\ LET id == requestId(sender, PromptHash, now, gateway.totalRequests)
     IN gateway' =
          IF value < BaseFee THEN Reverted("createRequest", sender)
          ELSE [gateway EXCEPT
                  !.requests[id] = [requester |-> sender, fee |-> value, timestamp |-> now,
                                    status |-> "Pending"],
                  !.totalRequests = @ + 1,
                  !.balance = @ + value,
                  !.last = Called("createRequest", sender)]
  /\ UNCHANGED <<limiter, wait, relay, pushes, crypto, env, now, sessions, sessionKeys, prompts,
                 tasks, creation, getReq, submit, resp>>

MarkProcessing(sender, id) ==
  /\ gateway' =
       IF ~onlyOperator(sender) \/ gateway.requests[id].status # "Pending"
       THEN Reverted("markProcessing", sender)
       ELSE [gateway EXCEPT !.requests[id].status = "Processing",
                            !.last = Called("markProcessing", sender)]
  /\ UNCHANGED <<limiter, wait, relay, pushes, crypto, env, now, sessions, sessionKeys, prompts,
                 tasks, creation, getReq, submit, resp>>

\* completeRequest: the two transfers revert the call when the balance
\* does not cover them.
CompleteRequest(sender, id) ==
  /\ LET request == gateway.requests[id]
     IN gateway' =
          IF \/ ~onlyOperator(sender)
             \/ request.status # "Processing"
             \/ gateway.balance < request.fee
          THEN Reverted("completeRequest", sender)
          ELSE [gateway EXCEPT
                  !.requests[id].status = "Completed",
                  !.balance = @ - request.fee,
                  !.paid[id].treasury = @ + PlatformFee(request.fee),
                  !.paid[id].operator = @ + OperatorFee(request.fee),
                  !.last = Called("completeRequest", sender)]
  /\ UNCHANGED <<limiter, wait, relay, pushes, crypto, env, now, sessions, sessionKeys, prompts,
                 tasks, creation, getReq, submit, resp>>

\* failRequest without the require of lines 234-238.
FailRequest_Unguarded(sender, id) ==
  /\ LET request == gateway.requests[id]
     IN gateway' =
          IF ~onlyOperator(sender) \/ gateway.balance < request.fee
          THEN Reverted("failRequest", sender)
          ELSE [gateway EXCEPT
                  !.requests[id].status = "Failed",
                  !.balance = @ - request.fee,
                  !.paid[id].requester = @ + request.fee,
                  !.last = Called("failRequest", sender)]
  /\ UNCHANGED <<limiter, wait, relay, pushes, crypto, env, now, sessions, sessionKeys, prompts,
                 tasks, creation, getReq, submit, resp>>

FailRequest(sender, id) ==
  /\ LET request == gateway.requests[id]
     IN gateway' =
          IF \/ ~onlyOperator(sender)
             \/ request.status \notin {"Pending", "Processing"}
             \/ gateway.balance < request.fee
          THEN Reverted("failRequest", sender)
          ELSE [gateway EXCEPT
                  !.requests[id].status = "Failed",
                  !.balance = @ - request.fee,
                  !.paid[id].requester = @ + request.fee,
                  !.last = Called("failRequest", sender)]
  /\ UNCHANGED <<limiter, wait, relay, pushes, crypto, env, now, sessions, sessionKeys, prompts,
                 tasks, creation, getReq, submit, resp>>

SetOperator(sender, operator) ==
  /\ gateway' =
       IF ~onlyOwner(sender) \/ operator = "zero" THEN Reverted("setOperator", sender)
       ELSE [gateway EXCEPT !.operator = operator, !.last = Called("setOperator", sender)]
  /\ UNCHANGED <<limiter, wait, relay, pushes, crypto, env, now, sessions, sessionKeys, prompts,
                 tasks, creation, getReq, submit, resp>>

SetPlatformFee(sender, feePercent) ==
  /\ gateway' =
       IF ~onlyOwner(sender) \/ feePercent > MaxFeePercent
       THEN Reverted("setPlatformFee", sender)
       ELSE [gateway EXCEPT !.platformFeePercent = feePercent,
                            !.last = Called("setPlatformFee", sender)]
  /\ UNCHANGED <<limiter, wait, relay, pushes, crypto, env, now, sessions, sessionKeys, prompts,
                 tasks, creation, getReq, submit, resp>>

EmergencyWithdraw(sender) ==
  /\ gateway' =
       IF ~onlyOwner(sender) THEN Reverted("emergencyWithdraw", sender)
       ELSE [gateway EXCEPT !.balance = 0, !.last = Called("emergencyWithdraw", sender)]
  /\ UNCHANGED <<limiter, wait, relay, pushes, crypto, env, now, sessions, sessionKeys, prompts,
                 tasks, creation, getReq, submit, resp>>

GatewayNext ==
  \/ \E value \in {BaseFee - 5, BaseFee, BaseFee + 5} : CreateRequest("user", value)
  \/ \E sender \in GatewayCallers, id \in GatewayIds : MarkProcessing(sender, id)
  \/ \E sender \in GatewayCallers, id \in GatewayIds : CompleteRequest(sender, id)
  \/ \E sender \in GatewayCallers, id \in GatewayIds : FailRequest(sender, id)
  \/ \E sender \in GatewayCallers, operator \in {"operator", "user", "zero"} :
       SetOperator(sender, operator)
  \/ \E sender \in GatewayCallers, feePercent \in {MaxFeePercent, MaxFeePercent + 10} :
       SetPlatformFee(sender, feePercent)
  \/ \E sender \in GatewayCallers : EmergencyWithdraw(sender)

GatewaySpec == EnclaveInit /\ [][GatewayNext]_vars

\* ------------------------------------------------------ rateLimiter.ts
\* The window of every request being over.
WindowExpired_Always(entry) == TRUE
\* line 23: !store[clientId] || store[clientId].resetTime < now
WindowExpired(entry) == ~entry.present \/ entry.resetTime < now

\* rateLimiter for one request of client c: next() or 429. limiter.passed
\* counts the calls of next() per client and window (by its resetTime).
RateLimiter(c) ==
  /\ LET entry == limiter.store[c]
     IN IF WindowExpired(entry)
        THEN limiter' = [limiter EXCEPT
               !.store[c] = [present |-> TRUE, count |-> 1, resetTime |-> now + WINDOW_MS],
               !.passed[c][now + WINDOW_MS] = @ + 1,
               !.last = [client |-> c, code |-> 200]]
        ELSE /\ entry.count < limiter.max + MaxOverLimit
             /\ IF entry.count + 1 > limiter.max
                THEN limiter' = [limiter EXCEPT
                       !.store[c].count = @ + 1,
                       !.last = [client |-> c, code |-> 429]]
                ELSE limiter' = [limiter EXCEPT
                       !.store[c].count = @ + 1,
                       !.passed[c][entry.resetTime] = @ + 1,
                       !.last = [client |-> c, code |-> 200]]
  /\ UNCHANGED <<gateway, wait, relay, pushes, crypto, env, now, sessions, sessionKeys, prompts,
                 tasks, creation, getReq, submit, resp>>

\* The setInterval of lines 62-69: entries past their resetTime are deleted.
LimiterCleanup ==
  /\ limiter' = [limiter EXCEPT
       !.store = [c \in Clients |->
                    IF limiter.store[c].present /\ limiter.store[c].resetTime < now
                    THEN NoClient ELSE limiter.store[c]],
       !.last = NoLimiter.last]
  /\ UNCHANGED <<gateway, wait, relay, pushes, crypto, env, now, sessions, sessionKeys, prompts,
                 tasks, creation, getReq, submit, resp>>

LimiterNext ==
  \/ Tick
  \/ \E c \in Clients : RateLimiter(c)
  \/ LimiterCleanup

\* The module is loaded: the configuration is read, the store is empty.
LimiterInit ==
  /\ env \in [simulation : BOOLEAN, nodeEnv : {"development", "production"}]
  /\ now = 0
  /\ sessions = <<>>
  /\ sessionKeys = <<>>
  /\ prompts = <<>>
  /\ tasks = <<>>
  /\ creation = <<>>
  /\ getReq = <<>>
  /\ submit = <<>>
  /\ resp = NoResp
  /\ relay = NoSecrets
  /\ pushes = <<>>
  /\ crypto = NoCrypto
  /\ wait = NoWait
  /\ gateway = GatewayDeployed
  /\ \E max \in MaxRequestsValues : limiter = [NoLimiter EXCEPT !.max = max]

LimiterSpec == LimiterInit /\ [][LimiterNext]_vars

\* ------------------------------------------------------------ claims
PromptsOf(ps, s) == {p \in DOMAIN ps : ps[p].sessionId = s}
KeyTaskOf(s) == sessions[s].taskId
KeyTaskFailed(s) ==
  /\ KeyTaskOf(s) # NoTask
  /\ \/ tasks[KeyTaskOf(s)].status = "FAILED"
     \/ /\ tasks[KeyTaskOf(s)].status = "COMPLETED"
        /\ ~tasks[KeyTaskOf(s)].output.success

\* C1: a prompt submitted against a session that is not active, or whose
\* expiresAt is in the past, creates no Prompt record and dispatches no
\* oracle task: the prompts of such a session do not grow in any step, and an
\* oracle task is only ever dispatched for a Prompt record that an accepted
\* submission created.
C1_RejectedSubmission ==
  [][/\ \A s \in SessionIds :
          (sessions[s].status # "active" \/ sessions[s].expiresAt < now)
            => PromptsOf(prompts', s) = PromptsOf(prompts, s)
     /\ \A t \in DOMAIN tasks' \ TaskIds :
          tasks'[t].kind = "oracle"
            => /\ tasks'[t].pid \in PromptIds
               /\ prompts[tasks'[t].pid].sessionId = tasks'[t].sid
               /\ prompts[tasks'[t].pid].status = "pending"]_vars

\* C1 witness: a submission was refused for an active session past its
\* expiresAt, before any sweep, and left no Prompt and no task behind.
C1_Witness ==
  /\ resp.op = "submit" /\ resp.code = 400 /\ resp.status = "active"
  /\ sessions[resp.sid].expiresAt < now
  /\ prompts = <<>>
  /\ \A t \in TaskIds : tasks[t].kind # "oracle"

\* C2: failed, expired and revoked are terminal: no step changes the status
\* of a session that has one of them.
C2_TerminalIsFinal ==
  [][\A s \in SessionIds :
       sessions[s].status \in Terminal => sessions'[s].status = sessions[s].status]_vars

\* C3: a session leaves pending only for active (TEE #1 succeeded) or failed
\* (TEE #1 failed), and leaves active only for revoked or for expired (past
\* expiresAt).
C3_TransitionTable ==
  [][\A s \in SessionIds :
       /\ (sessions[s].status = "pending" /\ sessions'[s].status # "pending")
            => \/ /\ sessions'[s].status = "active"
                  /\ KeyTaskOf(s) # NoTask
                  /\ tasks[KeyTaskOf(s)].status = "COMPLETED"
                  /\ tasks[KeyTaskOf(s)].output.success
               \/ /\ sessions'[s].status = "failed"
                  /\ KeyTaskFailed(s)
       /\ (sessions[s].status = "active" /\ sessions'[s].status # "active")
            => \/ sessions'[s].status = "revoked"
               \/ /\ sessions'[s].status = "expired"
                  /\ sessions[s].expiresAt < now]_vars

\* C4: the Coordinator holds a session key and an encrypted credential for a
\* session exactly when the session is active.
HoldsKeyAndCredential(s) ==
  /\ sessionKeys[s].present
  /\ sessionKeys[s].key # 0
  /\ sessionKeys[s].apiKey.kind # "none"

C4_KeysIffActive ==
  \A s \in SessionIds : HoldsKeyAndCredential(s) <=> sessions[s].status = "active"

\* C5: a create-session or GET response that carries a session key is about
\* a session that is active at that moment.
C5_KeyOnlyWhenActive ==
  (resp.op \in {"create", "get"} /\ resp.key # NoKey) => resp.status = "active"

\* C6: when the background waiter meets a failed TEE #1 (task FAILED, or an
\* output record with success false) it leaves the session failed, with the
\* error stored.
C6_FailedKeyTask ==
  [][\A s \in SessionIds :
       (/\ creation[s].pc = "wait"
        /\ creation'[s].pc = "done"
        /\ now - creation[s].start < TaskWaitTicks
        /\ KeyTaskFailed(s))
         => /\ sessions'[s].status = "failed"
            /\ sessions'[s].error # ""]_vars

\* C7: every oracle task that exists belongs to a session whose TEE #1 task
\* completed with success, and carries the key and the encrypted credential
\* of that task's output, which the Coordinator had stored.
C7_OracleAfterKeyTask ==
  \A t \in TaskIds :
    tasks[t].kind = "oracle"
      => LET k == KeyTaskOf(tasks[t].sid)
         IN /\ k # NoTask
            /\ tasks[k].kind = "km"
            /\ tasks[k].status = "COMPLETED"
            /\ tasks[k].output.success
            /\ tasks[t].secret2 = JSONStringify(tasks[k].output.sessionKey)
            /\ tasks[t].secret3 = tasks[k].output.encryptedApiKey

\* C7 witness: an oracle task has been dispatched.
C7_Witness == \E t \in TaskIds : tasks[t].kind = "oracle"

\* C8 as stated: under a fair sweep an active session past its expiresAt
\* eventually has status expired.
C8_EventuallyExpired ==
  \A s \in 1..MaxSessions :
    [](( /\ s \in SessionIds
         /\ sessions[s].status = "active"
         /\ sessions[s].expiresAt < now)
       => <>(s \in SessionIds /\ sessions[s].status = "expired"))

\* C8 amended: under a fair sweep an active session past its expiresAt
\* eventually stops being active (expired by the sweep, unless another
\* operation took it out of active first), and while a session is past its
\* expiresAt no submission creates a Prompt for it, swept or not.
C8_ExpiryEnforced ==
  /\ \A s \in 1..MaxSessions :
       [](( /\ s \in SessionIds
            /\ sessions[s].status = "active"
            /\ sessions[s].expiresAt < now)
          => <>(s \in SessionIds /\ sessions[s].status \in Terminal))
  /\ [][\A s \in SessionIds :
          sessions[s].expiresAt < now
            => PromptsOf(prompts', s) = PromptsOf(prompts, s)]_vars

\* C8 witness: the sweep has expired a session.
C8_Witness ==
  \E s \in SessionIds : sessions[s].status = "expired" /\ sessions[s].expiresAt < now

\* C9: an oracle task is dispatched only for a session that is active and
\* not past its expiresAt at the moment of the dispatch.
C9_RevalidatedAtDispatch ==
  [][\A t \in DOMAIN tasks' \ TaskIds :
       tasks'[t].kind = "oracle"
         => /\ sessions[tasks'[t].sid].status = "active"
            /\ ~(sessions[tasks'[t].sid].expiresAt < now)]_vars

\* C10: an oracle run that sees its secrets decrypts the relayed ciphertext
\* with the relayed key without error, and the API key it extracts is the
\* credential the caller gave when the session was created.
C10_CredentialRoundTrip ==
  \A t \in TaskIds :
    (tasks[t].kind = "oracle" /\ tasks[t].status = "COMPLETED")
      => /\ tasks[t].output.error # DecryptFailedError
         /\ tasks[t].source \in {"session", "none"}
         /\ tasks[t].source = "session"
              => tasks[t].apiKey = tasks[KeyTaskOf(tasks[t].sid)].secret1

\* C10 witness: an oracle run called the provider with a decrypted credential.
C10_Witness ==
  \E t \in TaskIds :
    /\ tasks[t].kind = "oracle"
    /\ tasks[t].status = "COMPLETED"
    /\ tasks[t].source = "session"
    /\ tasks[t].called
    /\ tasks[t].apiKey.kind = "plain"

\* C11: the oracle's success record carries the AI response as ciphertext
\* under the session key it was given, and what the Coordinator stores for a
\* completed Prompt is that ciphertext, which the session key decrypts to the
\* provider's content.
C11_ResponseIsCiphertext ==
  /\ \A t \in TaskIds :
       (tasks[t].kind = "oracle" /\ tasks[t].status = "COMPLETED" /\ tasks[t].output.success)
         => /\ tasks[t].output.response.kind = "cipher"
            /\ IsJSON(tasks[t].secret2)
            /\ tasks[t].output.response.key = JSONParse(tasks[t].secret2).key
            /\ DecryptOutcomes(tasks[t].output.response, tasks[t].output.response.key,
                               tasks[t].output.response.iv) = {Plain(AIContent)}
  /\ \A p \in PromptIds :
       prompts[p].status = "completed" => prompts[p].encryptedResult.kind = "cipher"

\* C12: whatever credential value the Coordinator keeps for a session, or has
\* read from its store for a prompt in flight, is a ciphertext: never the
\* caller's plaintext credential.
C12_OnlyCiphertextKept ==
  /\ \A s \in SessionIds :
       sessionKeys[s].present => sessionKeys[s].apiKey.kind = "cipher"
  /\ \A p \in PromptIds :
       submit[p].data.present => submit[p].data.apiKey.kind = "cipher"

\* C13: prompts submitted against the same active session are separate
\* records: a submission adds one record under a new id and leaves the
\* earlier records as they are, no record ever disappears, and a step that
\* changes one Prompt (a task assigned, a completion, a failure) changes no
\* field of any other.
C13_IndependentPrompts ==
  [][/\ DOMAIN prompts \subseteq DOMAIN prompts'
     /\ Len(prompts') <= Len(prompts) + 1
     /\ Len(prompts') > Len(prompts) => \A p \in PromptIds : prompts'[p] = prompts[p]
     /\ \A p, q \in PromptIds :
          (p # q /\ prompts'[p] # prompts[p]) => prompts'[q] = prompts[q]]_vars

\* C13 witness: two prompts of one session, the later one completed while
\* the earlier one is still processing.
C13_Witness ==
  /\ Len(prompts) = 2
  /\ prompts[1].sessionId = prompts[2].sessionId
  /\ prompts[1].status = "processing"
  /\ prompts[2].status = "completed"

\* C14: a Prompt starts pending, becomes processing exactly in the step that
\* dispatches its oracle task, and from processing goes to completed or
\* failed; it becomes completed only from processing, when its task has
\* completed.
OracleTaskDispatchedFor(p) ==
  \E t \in DOMAIN tasks' \ TaskIds : tasks'[t].kind = "oracle" /\ tasks'[t].pid = p

C14_PromptLifecycle ==
  [][/\ \A p \in DOMAIN prompts' \ PromptIds : prompts'[p].status = "pending"
     /\ \A p \in PromptIds :
          /\ prompts'[p].status # prompts[p].status
               => \/ prompts[p].status = "pending" /\ prompts'[p].status = "processing"
                  \/ /\ prompts[p].status = "processing"
                     /\ prompts'[p].status \in {"completed", "failed"}
          /\ (prompts[p].status # "processing" /\ prompts'[p].status = "processing")
               <=> OracleTaskDispatchedFor(p)
          /\ (prompts[p].status # "completed" /\ prompts'[p].status = "completed")
               => /\ prompts[p].status = "processing"
                  /\ prompts[p].taskId \in TaskIds
                  /\ tasks[prompts[p].taskId].status = "COMPLETED"]_vars

\* C15: when the submit handler's wait meets a failed oracle task (status
\* FAILED, or an output record with success false), it leaves the Prompt
\* failed with an error stored.
PromptTaskFailed(p) ==
  /\ prompts[p].taskId \in TaskIds
  /\ \/ tasks[prompts[p].taskId].status = "FAILED"
     \/ /\ tasks[prompts[p].taskId].status = "COMPLETED"
        /\ ~tasks[prompts[p].taskId].output.success

C15_FailedOracleTask ==
  [][\A p \in PromptIds :
       (/\ submit[p].pc = "wait"
        /\ submit'[p].pc = "done"
        /\ now - submit[p].start < TaskWaitTicks
        /\ PromptTaskFailed(p))
         => /\ prompts'[p].status = "failed"
            /\ prompts'[p].error # ""]_vars

\* C16: a wait for a TEE task that times out changes no Session and no
\* Prompt record, and a later status check that finds the task completed
\* with success still moves the record on: GET /sessions/:id activates the
\* session, GET /prompts/:id reports the Prompt completed.
WaiterTimedOut(s) ==
  /\ creation[s].pc = "wait"
  /\ creation'[s].pc = "done"
  /\ now - creation[s].start >= TaskWaitTicks

SubmitTimedOut(p) ==
  /\ submit[p].pc = "wait"
  /\ submit'[p].pc = "timeout"

OracleTaskSucceeded(p) ==
  /\ prompts[p].taskId \in TaskIds
  /\ tasks[prompts[p].taskId].status = "COMPLETED"
  /\ tasks[prompts[p].taskId].output.success
  /\ tasks[prompts[p].taskId].output.response.kind # "none"

C16_TimeoutKeepsRetryOpen ==
  [][/\ \A s \in SessionIds :
          WaiterTimedOut(s) => (sessions' = sessions /\ prompts' = prompts)
     /\ \A p \in PromptIds :
          SubmitTimedOut(p) => (sessions' = sessions /\ prompts' = prompts)
     /\ \A s \in SessionIds :
          (getReq[s] = "fetch" /\ getReq'[s] = "idle" /\ sessions'[s] # sessions[s])
            => sessions'[s].status = "active"
     /\ \A p \in PromptIds :
          (/\ submit[p].pc = "timeout"
           /\ OracleTaskSucceeded(p)
           /\ resp' # resp
           /\ resp'.op = "prompt"
           /\ resp'.sid = p)
            => resp'.status = "completed"]_vars

\* C17: every run of the KeyManager and of the PrivateAI Oracle ends with one
\* result.json that has a boolean success field: the success record on the
\* normal path, {success: false, error} when anything throws.  A task has no
\* record before its application has run, and the record the run wrote is
\* never written again.
C17_AlwaysOneRecord ==
  /\ [](\A t \in TaskIds :
          IF tasks[t].status = "COMPLETED"
          THEN /\ tasks[t].output.present
               /\ tasks[t].output.success \in BOOLEAN
               /\ tasks[t].output.success <=> tasks[t].output.error = ""
          ELSE tasks[t].output = NoOutput)
  /\ [][\A t \in TaskIds :
          tasks[t].output.present => tasks'[t].output = tasks[t].output]_vars

\* An Oracle run whose provider call threw has left the error record.
C17_Witness ==
  \E t \in TaskIds :
    /\ tasks[t].kind = "oracle"
    /\ tasks[t].status = "COMPLETED"
    /\ tasks[t].called
    /\ tasks[t].output = Failure(ProviderError)

\* C18: a KeyManager run whose IEXEC_REQUESTER_SECRET_1 is missing or empty
\* writes {success: false, error} and puts neither a session key nor an
\* encrypted credential in its record.
C18_MissingCredential ==
  \A t \in TaskIds :
    (tasks[t].kind = "km" /\ tasks[t].status = "COMPLETED" /\ Falsy(tasks[t].apiKey)) =>
      /\ tasks[t].output.present
      /\ ~tasks[t].output.success
      /\ tasks[t].output.error = NoKMError
      /\ tasks[t].output.sessionKey = NoKey
      /\ tasks[t].output.encryptedApiKey = NoStr

\* The KeyManager has run with the empty string as its credential.
C18_Witness ==
  \E t \in TaskIds :
    /\ tasks[t].kind = "km"
    /\ tasks[t].status = "COMPLETED"
    /\ tasks[t].secret1 = Plain("")
    /\ tasks[t].apiKey = Plain("")

\* C19: a PrivateAI Oracle run whose session-key secret is absent or is not
\* JSON writes {success: false, error}, never reaches the provider call, and
\* takes its API key from no other source.
C19_NoSessionKeyNoCall ==
  \A t \in TaskIds :
    (/\ tasks[t].kind = "oracle"
     /\ tasks[t].status = "COMPLETED"
     /\ (Falsy(tasks[t].secret2) \/ ~IsJSON(tasks[t].secret2))) =>
      /\ tasks[t].output.present
      /\ ~tasks[t].output.success
      /\ tasks[t].output.error # ""
      /\ ~tasks[t].called
      /\ tasks[t].source \notin {"direct", "app"}

\* C20: when the PrivateAI Oracle has a session-key secret and an encrypted
\* credential but the decryption, or the parsing of what was decrypted, does
\* not give an API key, the run writes {success: false, error: 'Failed to
\* decrypt API key'}, has made no provider call, and its task is not run
\* again.
C20_DecryptFailureStops ==
  /\ [](\A t \in TaskIds :
          (/\ tasks[t].kind = "oracle"
           /\ tasks[t].status = "COMPLETED"
           /\ ~Falsy(tasks[t].secret1)
           /\ ~Falsy(tasks[t].secret2)
           /\ ~Falsy(tasks[t].secret3)
           /\ \/ ~IsJSON(tasks[t].secret2)
              \/ \A d \in DecryptOutcomes(tasks[t].secret3, JSONParse(tasks[t].secret2).key,
                                          JSONParse(tasks[t].secret2).iv) :
                   ~(IsJSON(d) /\ JSONParse(d).apiKey.kind = "plain")) =>
            /\ tasks[t].output = Failure(DecryptFailedError)
            /\ ~tasks[t].called
            /\ tasks[t].apiKey = NoStr)
  /\ [][\A t \in TaskIds :
          tasks[t].status = "COMPLETED" => tasks'[t] = tasks[t]]_vars

\* The Oracle has run with the KeyManager's ciphertext and the key of another
\* session.
C20_Witness ==
  \E t \in TaskIds :
    /\ tasks[t].kind = "oracle"
    /\ tasks[t].status = "COMPLETED"
    /\ tasks[t].secret1 = Plain(PromptText)
    /\ tasks[t].secret2 = JSONStringify(generateSessionKey(2))
    /\ tasks[t].secret3 =
         KMEncrypt([apiKey |-> Plain("sk-test-ABC"), sessionId |-> 1, expiresAt |-> 1],
                   RelayedKey.key, RelayedKey.iv)
    /\ tasks[t].output = Failure(DecryptFailedError)

\* C21: a Prompt has at most one oracle task, an oracle task that has made
\* its provider call never runs again, and a Prompt whose oracle task ended
\* on a provider error is never completed: when it leaves processing it is
\* failed with the provider's error text.
C21_ProviderErrorNotRetried ==
  /\ \A t1, t2 \in TaskIds :
       (/\ tasks[t1].kind = "oracle" /\ tasks[t2].kind = "oracle"
        /\ tasks[t1].pid = tasks[t2].pid) => t1 = t2
  /\ \A p \in PromptIds :
       (/\ prompts[p].taskId \in TaskIds
        /\ tasks[prompts[p].taskId].status = "COMPLETED"
        /\ tasks[prompts[p].taskId].called
        /\ tasks[prompts[p].taskId].output = Failure(ProviderError)) =>
         /\ prompts[p].status # "completed"
         /\ prompts[p].status = "failed" => prompts[p].error = ProviderError

\* C22: no two encryptions use the same key and iv: the ciphertext of the
\* credential in a KeyManager record and the ciphertexts of the responses in
\* AIOracle records all differ in their (key, iv) pair, and each record
\* carries the iv its ciphertext was made with.
EmittedCiphertexts(t) ==
  IF tasks[t].status = "COMPLETED" /\ tasks[t].output.success
  THEN IF tasks[t].kind = "km" THEN {tasks[t].output.encryptedApiKey}
       ELSE IF tasks[t].kind = "aioracle" THEN {tasks[t].output.response.encrypted}
       ELSE {}
  ELSE {}

C22_FreshNoncePerEncryption ==
  /\ \A t1, t2 \in TaskIds :
       t1 # t2 => \A c1 \in EmittedCiphertexts(t1), c2 \in EmittedCiphertexts(t2) :
                    <<c1.key, c1.iv>> # <<c2.key, c2.iv>>
  /\ \A t \in TaskIds : \A c \in EmittedCiphertexts(t) :
       IF tasks[t].kind = "km" THEN tasks[t].output.sessionKey.iv = c.iv
       ELSE tasks[t].output.response.iv = c.iv

C24_RoundTrip ==
  (/\ crypto.pc = "decrypted"
   /\ crypto.pair \in {"CryptoService", "KeyManager"}
   /\ crypto.key2 = crypto.key
   /\ crypto.iv2 = crypto.iv) => crypto.decrypted = Returned(crypto.data)

\* The KeyManager pair has taken a text with a quote and a two-byte
\* character through encrypt and decrypt.
C24_Witness ==
  /\ crypto.pc = "decrypted"
  /\ crypto.pair = "KeyManager"
  /\ crypto.data = <<Quote, EAcute>>
  /\ crypto.key2 = crypto.key
  /\ crypto.iv2 = crypto.iv
  /\ crypto.decrypted.ok

\* C25: decrypting a ciphertext with a key other than the one it was
\* encrypted with throws; it never returns a text.
C25_WrongKeyFails ==
  (crypto.pc = "decrypted" /\ crypto.key2 # crypto.key) => ~crypto.decrypted.ok

C27_SweepFrame ==
  [][Sweep =>
       /\ DOMAIN sessions' = DOMAIN sessions
       /\ \A s \in SessionIds :
            IF sessions[s].status = "active" /\ sessions[s].expiresAt < now
            THEN sessions'[s] = [sessions[s] EXCEPT !.status = "expired"]
            ELSE sessions'[s] = sessions[s]
       /\ cleaned(sessions, Len(sessions))
            = Cardinality({s \in SessionIds : sessions'[s] # sessions[s]})]_vars

\* A sweep has expired one session and left a revoked and a pending
\* session, both past their expiresAt, alone.
C27_Witness ==
  /\ Len(sessions) = 3
  /\ \E s1, s2, s3 \in SessionIds :
       /\ sessions[s1].status = "expired" /\ sessions[s1].expiresAt < now
       /\ sessions[s2].status = "revoked" /\ sessions[s2].expiresAt < now
       /\ sessions[s3].status = "pending" /\ sessions[s3].expiresAt < now

WaitOutcomes ==
  /\ wait.pc = "returned" =>
       /\ wait.seen = "COMPLETED"
       /\ tasks[WaitedTask].status = "COMPLETED"
       /\ wait.result = tasks[WaitedTask].output
  /\ wait.pc = "thrown" =>
       \/ wait.error = TaskFailedError /\ wait.seen = "FAILED"
            /\ tasks[WaitedTask].status = "FAILED"
       \/ wait.error = TaskTimedOutError /\ now - wait.start >= TaskWaitTicks
       \/ wait.error \in RetrievalErrors /\ wait.seen = "COMPLETED"
       \/ wait.error = ShowRejectedError
  /\ wait.pc = "retrieve" => wait.seen = "COMPLETED"

C29_TerminalIsFinal ==
  [][\A p \in PromptIds :
       prompts[p].status \in {"completed", "failed"} =>
         /\ prompts'[p].status = prompts[p].status
         /\ prompts'[p].encryptedResult = prompts[p].encryptedResult
         /\ prompts'[p].error = prompts[p].error]_vars

\* The POST /prompts handler of Prompt p has sent its response.
HandlerEnded(p) == submit[p].pc \in {"done", "timeout"}
\* Prompt p has no oracle task, or its oracle task has terminated.
OracleTaskOver(p) ==
  \/ prompts[p].taskId = NoTask
  \/ tasks[prompts[p].taskId].status \in {"COMPLETED", "FAILED"}

\* C30: no Prompt record is left pending or processing: once the handler
\* that created it has ended and its oracle task (if any) has terminated,
\* the Prompt is completed or failed, also when the session key entry was
\* missing, when dispatch threw and when the wait for the task raised.
C30_NoPromptLeftBehind ==
  \A p \in PromptIds :
    HandlerEnded(p) /\ OracleTaskOver(p) => prompts[p].status \in {"completed", "failed"}

\* A Prompt left pending with no task by a handler that has ended is never
\* touched again.
C30_PendingForGood ==
  [][\A p \in PromptIds :
       HandlerEnded(p) /\ prompts[p].taskId = NoTask /\ prompts[p].status = "pending"
         => /\ p \in DOMAIN prompts'
            /\ prompts'[p] = prompts[p]
            /\ submit'[p] = submit[p]]_vars

\* C31: every Prompt record is internally consistent: completedAt is set
\* iff the status is completed or failed, encryptedResult is set iff the
\* status is completed, error is set iff the status is failed, and taskId
\* is set whenever the status is processing.
C31_PromptConsistent ==
  \A p \in PromptIds :
    /\ (prompts[p].completedAt # NoTime) <=> (prompts[p].status \in {"completed", "failed"})
    /\ (prompts[p].encryptedResult # NoStr) <=> (prompts[p].status = "completed")
    /\ (prompts[p].error # "") <=> (prompts[p].status = "failed")
    /\ (prompts[p].status = "processing") => (prompts[p].taskId # NoTask)

ChangedSessions == {s \in SessionIds : sessions'[s] # sessions[s]}
ChangedPrompts == {p \in PromptIds : prompts'[p] # prompts[p]}
\* This step is the handling of one webhook request.
WebhookStep == resp'.op = "webhook" /\ resp'.seq = WebhooksAnswered + 1

\* C33: a task-complete webhook for task id t changes at most one record,
\* a session or a prompt whose taskId equals t; it changes nothing when no
\* session and no prompt has that task id; every other record is unchanged.
C33_WebhookFrame ==
  [][WebhookStep =>
       /\ DOMAIN sessions' = DOMAIN sessions
       /\ DOMAIN prompts' = DOMAIN prompts
       /\ Cardinality(ChangedSessions) + Cardinality(ChangedPrompts) <= 1
       /\ \A s \in ChangedSessions : sessions[s].taskId = resp'.taskId
       /\ \A p \in ChangedPrompts : prompts[p].taskId = resp'.taskId
       /\ UNCHANGED <<sessionKeys, tasks>>]_vars

\* A webhook has failed the one session of its task, next to another
\* session and to prompts it left alone.
C33_Witness ==
  /\ resp.op = "webhook" /\ resp.code = 200 /\ resp.taskId = 2
  /\ Len(sessions) = 2 /\ Len(prompts) = 2
  /\ sessions[2].status = "failed" /\ sessions[2].taskId = 2
  /\ sessions[1].status = "pending" /\ sessions[1].taskId = 1
  /\ prompts[1].status = "processing" /\ prompts[2].status = "pending"

\* C34: in production mode a task-complete webhook whose signature is
\* missing, does not match, or has another length than the expected one
\* changes no session and no prompt record.
C34_UnsignedChangesNothing ==
  [][WebhookStep /\ isProduction /\ resp'.signature # "valid" =>
       UNCHANGED <<sessions, prompts, sessionKeys, tasks>>]_vars

\* In production a webhook for the task of a pending session came with a
\* signature of the wrong length, and was answered 500.
C34_Witness ==
  /\ isProduction /\ env.webhookSecret
  /\ resp.op = "webhook" /\ resp.code = 500 /\ resp.signature = "short"
  /\ \E s \in SessionIds : sessions[s].taskId = resp.taskId /\ sessions[s].status = "pending"

GatewayTransitions ==
  {<<"Pending", "Processing">>, <<"Processing", "Completed">>,
   <<"Pending", "Failed">>, <<"Processing", "Failed">>}

\* C35: in the PrivateAIGateway contract the status of a request changes
\* only Pending -> Processing, Processing -> Completed, and Pending or
\* Processing -> Failed; Completed and Failed are final; and only a call
\* by the operator or the owner changes a status.
C35_StatusMachine ==
  [][\A id \in GatewayIds :
       gateway'.requests[id].status # gateway.requests[id].status =>
         /\ <<gateway.requests[id].status, gateway'.requests[id].status>> \in GatewayTransitions
         /\ gateway'.last.sender \in {gateway.operator, "owner"}]_vars

\* The same, for the requests createRequest has written: from its creation
\* on, a request follows the three transitions, by operator or owner only.
C35_CreatedRequests ==
  [][\A id \in GatewayIds :
       /\ gateway.requests[id].timestamp # NoTime
       /\ gateway'.requests[id].status # gateway.requests[id].status
       => /\ <<gateway.requests[id].status, gateway'.requests[id].status>> \in GatewayTransitions
          /\ gateway'.last.sender \in {gateway.operator, "owner"}]_vars

PaidOut(id) ==
  gateway.paid[id].treasury + gateway.paid[id].operator + gateway.paid[id].requester

\* C36: the fee of each request is paid out at most once: either split on
\* completion into platformFee for the treasury and operatorFee for the
\* operator, the two adding up to the fee, or refunded in full to the
\* requester on failure; never both, never twice.
C36_FeePaidOnce ==
  /\ [](\A id \in GatewayIds :
          /\ PaidOut(id) \in {0, gateway.requests[id].fee}
          /\ gateway.paid[id].requester = 0
               \/ gateway.paid[id].treasury + gateway.paid[id].operator = 0
          /\ PaidOut(id) > 0 => gateway.requests[id].status \in {"Completed", "Failed"})
  /\ [][\A id \in GatewayIds :
          /\ gateway'.paid[id].treasury - gateway.paid[id].treasury
               + gateway'.paid[id].operator - gateway.paid[id].operator
               \in {0, gateway.requests[id].fee}
          /\ gateway'.paid[id].requester - gateway.paid[id].requester
               \in {0, gateway.requests[id].fee}
          /\ gateway'.paid[id].treasury - gateway.paid[id].treasury
               \in {0, (gateway.requests[id].fee * gateway.platformFeePercent) \div 100}]_vars

\* Of two requests that paid fifteen each, one was completed and split
\* seven to eight at fifty percent, the other refunded in full.
C36_Witness ==
  \E id, other \in GatewayIds :
    /\ id # other
    /\ gateway.requests[id].status = "Completed" /\ gateway.requests[id].fee = BaseFee + 5
    /\ gateway.paid[id].treasury = 7 /\ gateway.paid[id].operator = 8
    /\ gateway.requests[other].status = "Failed"
    /\ gateway.paid[other].requester = gateway.requests[other].fee
    /\ gateway.requests[other].fee > 0

\* This step is the rate limiter handling a request of client c.
LimitedRequest(c) == limiter' # limiter /\ limiter'.last.client = c

====
